---- MODULE Spec2Model ----
(***************************************************************************)
(* Healthcare Copilot: the real-time gateway (api/v1/websocket.py), the    *)
(* in-memory rate limiter (services/auth_service.py) and the agent layer   *)
(* (agents/*.py, services/agent_service_llm.py) as state machines.         *)
(*                                                                         *)
(* Conventions                                                             *)
(*   - an optional value (Python None or a value) is <<>> or <<v>>;        *)
(*   - a Python string built by an f-string is the sequence of its pieces; *)
(*   - a float confidence c is the integer c * 6000 (U(h) is h/100), so    *)
(*     that the mean of up to five scores given in hundredths is exact;    *)
(*   - an exception is a record [cls, msg]; a call that may raise yields   *)
(*     an outcome [raised, exc, val].                                      *)
(***************************************************************************)
EXTENDS Integers, Sequences, FiniteSets, TLC

VARIABLES
    \* ---- real-time gateway (api/v1/websocket.py) ----
    active_connections, \* manager.active_connections: the connection ids holding a socket
    user_sessions,      \* user_sessions: connection id -> session id (a partial map)
    sessions,           \* conversation_service: session id -> [user_id, turns]
    clock,              \* the last value datetime.now() returned, in ticks
    nconn,              \* how many connection ids uuid4 has produced
    connUser,           \* the user_id path parameter of each connection
    pc,                 \* where each connection's websocket_endpoint coroutine stands
    inbox,              \* text frames the client has sent and the server has not yet received
    clientClosed,       \* the client has closed its end of the socket
    session_id,         \* websocket_endpoint's local session_id, once derived
    cur,                \* the locals of the handler in flight: message, its number, session_id, conv_context
    taken,              \* the sequence numbers of the frames receive_text has returned, in order
    out,                \* the frames send_text has written to each socket, in order
    nsent,              \* how many frames clients have sent in all
    overlap,            \* some handler ran while another connection was suspended in an agent call
    \* ---- rate limiter (services/auth_service.py) ----
    requests,           \* RateLimiter.requests: key -> list of request times
    rlNow,              \* datetime.now(timezone.utc), in seconds
    rlJumps,            \* how often the clock has moved
    rlCalls,            \* how many is_allowed calls were made
    rlLast,             \* the last is_allowed call: [key, at, before, allowed]
    \* ---- agent layer ----
    call,               \* the last completed agent-layer operation: [op, input, outcome]
    \* ---- document store (services/document_service.py, services/vector_service.py) ----
    upload_dir,         \* ./data/uploads: document id -> extension of the saved raw upload
    processed_dir,      \* ./data/processed: the document ids with an _extracted.txt file
    collection,         \* the vector store: the document ids that have chunks in it
    ndocs,              \* how many document ids uuid4 has produced
    \* ---- evaluation (services/evaluation_service.py) ----
    metrics_history,    \* EvaluationService.metrics_history
    \* ---- concurrent requests on one agent instance ----
    inflight,           \* request -> the locals of its process coroutine
    heap                \* the list objects AgentState.reasoning refers to

varsWS == <<active_connections, user_sessions, sessions, clock, nconn, connUser, pc,
            session_id, inbox, clientClosed, cur, taken, out, nsent, overlap>>
varsRL == <<requests, rlNow, rlJumps, rlCalls, rlLast>>
varsAG == <<call>>
varsDS == <<upload_dir, processed_dir, collection, ndocs>>
varsEV == <<metrics_history>>
varsCC == <<inflight, heap>>
varsX == <<varsDS, varsEV, varsCC>>
vars == <<varsWS, varsRL, varsAG, varsX>>

-----------------------------------------------------------------------------
(* Python values                                                           *)

None == <<>>
Some(v) == <<v>>
IsNone(o) == o = <<>>
Get(o) == o[1]

Exc(cls, msg) == [cls |-> cls, msg |-> msg]
\* str(e): the message the exception was constructed with
Str(e) == e.msg

Raised(e) == [raised |-> TRUE, exc |-> Some(e), val |-> None]
Returned(v) == [raised |-> FALSE, exc |-> None, val |-> Some(v)]

\* hundredths to confidence units (1/6000)
U(h) == h * 60
Min(a, b) == IF a <= b THEN a ELSE b

RECURSIVE SumSeq(_)
SumSeq(s) == IF s = <<>> THEN 0 ELSE Head(s) + SumSeq(Tail(s))

\* [result for result in results if result["score"] > threshold], in hundredths
RECURSIVE AboveThreshold(_, _)
AboveThreshold(results, threshold) ==
    IF results = <<>> THEN <<>>
    ELSE IF Head(results).score > threshold
         THEN <<Head(results)>> \o AboveThreshold(Tail(results), threshold)
         ELSE AboveThreshold(Tail(results), threshold)

-----------------------------------------------------------------------------
(* Bounds of the agent layer's inputs                                      *)

MaxDocs == 2          \* results a vector search returns
MaxSteps == 7         \* steps of a workflow the LLM returns
MaxResSteps == 2      \* resolution steps of an exception plan the LLM returns

\* similarity scores, in hundredths: max(0.0, 1.0 - distance)
Scores == {20, 30, 100}
Queries == {"visitor policy", "admission workflow"}
\* the routing keywords that occur in query.lower()
KeywordsIn(query) ==
    CASE query = "visitor policy" -> {"policy"}
      [] query = "admission workflow" -> {"workflow"}
      [] query = "Policy on the discharge workflow" -> {"policy", "workflow"}
      [] query = "emergency procedure" -> {"emergency", "procedure"}
      [] query = "steps after a compliance problem" -> {"steps", "compliance", "problem"}
      [] query = "system error" -> {"error"}
      [] query = "billing issue in processing" -> {"issue", "process"}
      [] query = "hello" -> {}

SeqsUpTo(S, n) == UNION {[1..k -> S] : k \in 0..n}

-----------------------------------------------------------------------------
(* agents/base.py                                                          *)

\* the fields class AgentState declares
AgentStateFields == {"query", "context", "confidence", "reasoning", "result", "error"}

\* the methods BaseAgent gives every agent, and the ones each agent class adds
BaseAgentMethods == {"process", "log_reasoning", "set_confidence", "handle_error"}
AgentMethods(agent) ==
    BaseAgentMethods \cup
    CASE agent = "PolicyInterpreter" ->
           {"_retrieve_policies", "_structure_response", "_generate_recommendations",
            "_generate_next_steps", "_calculate_confidence", "_handle_no_policies"}
      [] agent = "WorkflowPlanner" ->
           {"_get_relevant_policies", "_enhance_workflow", "_identify_dependencies",
            "_add_checkpoints", "_calculate_confidence"}
      [] agent = "ExceptionHandler" ->
           {"_get_relevant_policies", "_enhance_exception_plan", "_create_timeline_summary",
            "_assess_risk_level", "_calculate_confidence"}

AgentClass(agent) ==
    CASE agent = "PolicyInterpreter" -> "PolicyInterpreterAgent"
      [] agent = "WorkflowPlanner" -> "WorkflowPlannerAgent"
      [] agent = "ExceptionHandler" -> "ExceptionHandlerAgent"

\* Python's message for a failed attribute lookup
AttributeError(cls, name) ==
    Exc("AttributeError", <<"'", cls, "' object has no attribute '", name, "'">>)

\* AgentState(query=..., context=...): the defaults of the other fields
AgentState(query) ==
    [query |-> query, confidence |-> 0, reasoning |-> <<>>, result |-> None, error |-> None]

\* one entry of state.reasoning: the f-string's fixed text, its number, its text argument
Entry(text, n, arg) == [text |-> text, n |-> n, arg |-> arg]

log_reasoning(state, step) == [state EXCEPT !.reasoning = Append(@, step)]

set_confidence(state, confidence, reason) ==
    log_reasoning([state EXCEPT !.confidence = confidence],
                  Entry("Confidence set to", confidence, reason))

handle_error(state, error) ==
    log_reasoning([state EXCEPT !.error = Some(Str(error)), !.confidence = 0],
                  Entry("Error occurred: ", 0, Str(error)))

\* The body of a process method's try block ends by returning the state, or by raising
\* with the state as mutated so far (the state object is updated in place).
Done(state) == [raised |-> FALSE, exc |-> None, state |-> state]
Fail(state, e) == [raised |-> TRUE, exc |-> Some(e), state |-> state]

except_Exception_OnlyDomainErrors(body) ==
    IF body.raised
      THEN IF Get(body.exc).cls \in {"VectorStoreError", "QueryProcessingError"}
             THEN Returned(handle_error(body.state, Get(body.exc)))
             ELSE Raised(Get(body.exc))
      ELSE Returned(body.state)

\* try: ... except Exception as e: return self.handle_error(state, e)
except_Exception(body) ==
    IF body.raised THEN Returned(handle_error(body.state, Get(body.exc)))
    ELSE Returned(body.state)

-----------------------------------------------------------------------------
(* utils/exceptions.py                                                     *)

\* HealthcareCopilotException and its subclasses
DomainErrors ==
    {"HealthcareCopilotException", "DocumentProcessingError", "VectorStoreError",
     "QueryProcessingError", "ValidationError"}

\* HealthcareCopilotException(message=f"Error in {func.__name__}: {str(e)}",
\*     error_code="SERVICE_ERROR", details={"function": ..., "exception_type": ...})
ServiceError(func_name, e) ==
    [cls |-> "HealthcareCopilotException",
     msg |-> <<"Error in ", func_name, ": ">> \o Str(e),
     error_code |-> "SERVICE_ERROR",
     details |-> [function |-> func_name, exception_type |-> e.cls]]

\* the decorator: wrapper runs func(*args, **kwargs) inside the try. For a plain
\* function that is its body; for an `async def` it only creates the coroutine, whose
\* body runs when the caller awaits it, outside the try.
handle_exceptions(func_name, kind, body) ==
    IF kind = "async" THEN body
    ELSE IF ~body.raised THEN body
    ELSE IF Get(body.exc).cls \in DomainErrors THEN Raised(Get(body.exc))
    ELSE Raised(ServiceError(func_name, Get(body.exc)))

-----------------------------------------------------------------------------
(* What an agent's collaborators can answer                                *)

Doc(score) == [source |-> "policy.pdf", score |-> score]
DocScores(docs) == [i \in DOMAIN docs |-> docs[i].score]

\* VectorStoreService.search_similar: a list of results, or VectorStoreError
SearchOutcomes ==
    {Raised(Exc("VectorStoreError", <<"Similarity search failed: ", "connection refused">>))}
    \cup {Returned([i \in DOMAIN s |-> Doc(s[i])]) : s \in SeqsUpTo(Scores, MaxDocs)}

LLMFailure(prefix) == Raised(Exc("QueryProcessingError", <<prefix, "timeout">>))

\* json.loads of the model's reply is a dict, or any other JSON value
NotADict == [isdict |-> FALSE]
\* what using a JSON list as a dict raises: interpretation.get(...) in the Policy
\* Interpreter, enhanced["policy_sources"] = ... in the other two agents
DictGetError == Exc("AttributeError", <<"'", "list", "' object has no attribute '", "get", "'">>)
DictSetError == Exc("TypeError", <<"list indices must be integers or slices, not str">>)

-----------------------------------------------------------------------------
(* agents/policy_interpreter.py                                            *)

Texts == {<<>>, <<"item">>}

\* generate_policy_interpretation: QueryProcessingError, or the decoded reply
PolicyInterpretations ==
    {NotADict} \cup
    [isdict : {TRUE}, direct_answer : {"", "Authorization is required"},
     requirements : Texts, procedures : Texts, exceptions : {<<>>},
     compliance_notes : Texts]
PolicyLLMOutcomes ==
    {LLMFailure("Policy interpretation failed: ")} \cup {Returned(i) : i \in PolicyInterpretations}

PI_retrieve_policies_Inclusive(search) ==
    IF search.raised THEN search ELSE Returned(AboveThreshold(Get(search.val), 29))

PI_retrieve_policies(search) ==
    IF search.raised THEN search ELSE Returned(AboveThreshold(Get(search.val), 30))

PI_generate_recommendations(interpretation) ==
    (IF interpretation.requirements # <<>>
       THEN <<"Ensure all listed requirements are met">> ELSE <<>>)
    \o (IF interpretation.procedures # <<>>
          THEN <<"Follow documented procedures in sequence">> ELSE <<>>)
    \o (IF interpretation.compliance_notes # <<>>
          THEN <<"Review compliance requirements carefully">> ELSE <<>>)
    \o <<"Consult supervisor if uncertain about any aspect">>

PI_generate_next_steps(interpretation) ==
    (IF interpretation.procedures # <<>>
       THEN <<"Begin with the first documented procedure">> ELSE <<>>)
    \o <<"Document all actions for audit trail",
         "Escalate to supervisor if exceptions apply",
         "Ensure compliance documentation is complete">>

PI_structure_response(interpretation, policy_docs) ==
    [policy_summary |-> interpretation.direct_answer,
     requirements |-> interpretation.requirements,
     procedures |-> interpretation.procedures,
     exceptions |-> interpretation.exceptions,
     compliance_notes |-> interpretation.compliance_notes,
     sources |-> [i \in DOMAIN policy_docs |->
                    [source |-> policy_docs[i].source,
                     relevance_score |-> policy_docs[i].score]],
     recommendations |-> PI_generate_recommendations(interpretation),
     next_steps |-> PI_generate_next_steps(interpretation)]

PI_calculate_confidence_Uncapped(policy_docs, interpretation) ==
    IF policy_docs = <<>> THEN U(10)
    ELSE SumSeq([i \in DOMAIN policy_docs |-> U(policy_docs[i].score)]) \div Len(policy_docs)
         + (IF interpretation.direct_answer # "" THEN U(20) ELSE 0)
         + Min(U(20), Len(policy_docs) * U(5))

PI_calculate_confidence(policy_docs, interpretation) ==
    IF policy_docs = <<>> THEN U(10)
    ELSE LET avg_relevance == SumSeq([i \in DOMAIN policy_docs |-> U(policy_docs[i].score)])
                                 \div Len(policy_docs)
             llm_boost == IF interpretation.direct_answer # "" THEN U(20) ELSE 0
             source_boost == Min(U(20), Len(policy_docs) * U(5))
         IN Min(U(95), avg_relevance + llm_boost + source_boost)

\* a variant that also reports the missing policies as an error
PI_handle_no_policies_AsError(state) ==
    LET s1 == log_reasoning(state, Entry("No relevant policies found", 0, <<>>))
        s2 == [s1 EXCEPT !.result = Some([policy_summary |-> "No specific policies found."]),
                         !.error = Some(<<"No relevant policies found">>)]
    IN set_confidence(s2, U(10), <<"No relevant policies found">>)

PI_handle_no_policies(state) ==
    LET s1 == log_reasoning(state, Entry("No relevant policies found", 0, <<>>))
        s2 == [s1 EXCEPT !.result = Some(
                 [policy_summary |->
                     "No specific policies found. Please consult supervisor or policy manual.",
                  requirements |-> <<>>, procedures |-> <<>>, exceptions |-> <<>>,
                  compliance_notes |-> <<>>, sources |-> <<>>,
                  recommendations |-> <<"Consult with supervisor for guidance",
                                        "Review complete policy documentation",
                                        "Document query for policy development review">>,
                  next_steps |-> <<"Escalate to supervisor", "Document the query",
                                   "Seek department guidance">>])]
    IN set_confidence(s2, U(10), <<"No relevant policies found">>)

\* the try block of PolicyInterpreterAgent.process, given what the vector store and the
\* LLM answer
PI_try(state, search, llm) ==
    LET s1 == log_reasoning(state,
                  Entry("Starting LLM-powered policy interpretation: ", 0, <<state.query>>))
        retrieved == PI_retrieve_policies(search)
    IN IF retrieved.raised THEN Fail(s1, Get(retrieved.exc))
       ELSE LET policy_docs == Get(retrieved.val) IN
         IF policy_docs = <<>> THEN Done(PI_handle_no_policies(s1))
         ELSE LET s2 == log_reasoning(s1,
                           Entry("Retrieved", Len(policy_docs), <<"relevant policy documents">>))
              IN IF llm.raised THEN Fail(s2, Get(llm.exc))
                 ELSE LET interpretation == Get(llm.val) IN
                   IF ~interpretation.isdict THEN Fail(s2, DictGetError)
                   ELSE LET structured_response ==
                                PI_structure_response(interpretation, policy_docs)
                            confidence == PI_calculate_confidence(policy_docs, interpretation)
                            s3 == set_confidence(s2, confidence, <<"LLM interpretation">>)
                            s4 == [s3 EXCEPT !.result = Some(structured_response)]
                        IN Done(log_reasoning(s4,
                             Entry("LLM policy interpretation completed successfully", 0, <<>>)))

-----------------------------------------------------------------------------
(* agents/workflow_planner.py                                              *)

\* range(start, stop, step) as a list
RECURSIVE Range(_, _, _)
Range(start, stop, step) ==
    IF start >= stop THEN <<>> ELSE <<start>> \o Range(start + step, stop, step)

WorkflowStep(n) == [step_number |-> n, description |-> "step"]

\* generate_workflow_plan: QueryProcessingError, or the decoded reply (its "steps"
\* key may be missing)
WorkflowPlans ==
    {NotADict} \cup
    [isdict : {TRUE}, workflow_type : {"patient_admission"},
     steps : {None} \cup {Some([i \in 1..n |-> WorkflowStep(i)]) : n \in 0..MaxSteps}]
WorkflowLLMOutcomes ==
    {LLMFailure("Workflow planning failed: ")} \cup {Returned(w) : w \in WorkflowPlans}

WP_get_relevant_policies(search) ==
    IF search.raised THEN search ELSE Returned(AboveThreshold(Get(search.val), 20))

\* for i, step in enumerate(steps): if i > 0: "Step {i+1} depends on completion of Step {i}"
WP_identify_dependencies(steps) ==
    [k \in 1..(Len(steps) - 1) |-> [step |-> k + 1, depends_on |-> k]]

WP_add_checkpoints_FromThree(steps) ==
    LET r == Range(3, Len(steps), 3)
    IN [k \in DOMAIN r |->
          [after_step |-> r[k] + 1, checkpoint_type |-> "Quality Review",
           description_upto |-> r[k] + 1, reviewer_role |-> "Supervisor"]]

\* for i in range(2, len(steps), 3): a checkpoint after step i + 1
WP_add_checkpoints(steps) ==
    LET r == Range(2, Len(steps), 3)
    IN [k \in DOMAIN r |->
          [after_step |-> r[k] + 1, checkpoint_type |-> "Quality Review",
           description_upto |-> r[k] + 1, reviewer_role |-> "Supervisor"]]

\* enhanced.get("steps", [])
StepsOrEmpty(plan) == IF IsNone(plan.steps) THEN <<>> ELSE Get(plan.steps)

WP_enhance_workflow(workflow_plan, policy_docs) ==
    [workflow_type |-> workflow_plan.workflow_type,
     steps |-> workflow_plan.steps,
     policy_sources |-> [i \in DOMAIN policy_docs |->
                           [source |-> policy_docs[i].source,
                            relevance_score |-> policy_docs[i].score]],
     dependencies |-> IF IsNone(workflow_plan.steps) THEN None
                      ELSE Some(WP_identify_dependencies(Get(workflow_plan.steps))),
     checkpoints |-> WP_add_checkpoints(StepsOrEmpty(workflow_plan))]

WP_calculate_confidence(policy_docs, workflow_plan) ==
    LET base_confidence == U(80)
        policy_boost == Min(U(15), Len(policy_docs) * U(5))
        detail_boost == IF Len(StepsOrEmpty(workflow_plan)) > 2 THEN U(5) ELSE 0
    IN Min(U(95), base_confidence + policy_boost + detail_boost)

\* the try block of WorkflowPlannerAgent.process
WP_try(state, search, llm) ==
    LET s1 == log_reasoning(state,
                  Entry("Starting LLM-powered workflow planning: ", 0, <<state.query>>))
        retrieved == WP_get_relevant_policies(search)
    IN IF retrieved.raised THEN Fail(s1, Get(retrieved.exc))
       ELSE LET policy_docs == Get(retrieved.val)
                s2 == log_reasoning(s1,
                          Entry("Retrieved", Len(policy_docs), <<"relevant policies">>))
            IN IF llm.raised THEN Fail(s2, Get(llm.exc))
               ELSE LET workflow_plan == Get(llm.val) IN
                 IF ~workflow_plan.isdict THEN Fail(s2, DictSetError)
                 ELSE LET enhanced_workflow == WP_enhance_workflow(workflow_plan, policy_docs)
                          confidence == WP_calculate_confidence(policy_docs, workflow_plan)
                          s3 == set_confidence(s2, confidence, <<"LLM workflow">>)
                          s4 == [s3 EXCEPT !.result = Some(enhanced_workflow)]
                      IN Done(log_reasoning(s4,
                           Entry("LLM workflow planning completed successfully", 0, <<>>)))

-----------------------------------------------------------------------------
(* agents/exception_handler_llm.py                                         *)

\* the "timeline" of a resolution step: missing, a bucket name, or what the prompt
\* of generate_exception_handling asks for ("1 hour", "24 hours")
Timelines == {None, Some("immediate"), Some("short_term"), Some("long_term"), Some("1 hour")}
Severities == {None, Some("low"), Some("medium"), Some("high"), Some("critical"),
               Some("severe")}

ResolutionSteps(tl) == [i \in DOMAIN tl |-> [step |-> i, action |-> i, timeline |-> tl[i]]]

ExceptionPlans ==
    {NotADict} \cup
    [isdict : {TRUE}, exception_type : {"system_outage"}, severity : Severities,
     resolution_steps : {None} \cup
         {Some(ResolutionSteps(tl)) : tl \in SeqsUpTo(Timelines, MaxResSteps)}]
ExceptionLLMOutcomes ==
    {LLMFailure("Exception handling failed: ")} \cup {Returned(e) : e \in ExceptionPlans}

EH_get_relevant_policies(search) ==
    IF search.raised THEN search ELSE Returned(AboveThreshold(Get(search.val), 20))

\* exception_plan.get("resolution_steps", [])
ResStepsOrEmpty(plan) ==
    IF IsNone(plan.resolution_steps) THEN <<>> ELSE Get(plan.resolution_steps)

\* the actions of the steps whose timeline_key is `bucket`, in step order
RECURSIVE BucketOf(_, _)
BucketOf(steps, bucket) ==
    IF steps = <<>> THEN <<>>
    ELSE LET step == Head(steps)
             timeline_key == IF IsNone(step.timeline) THEN "short_term"
                             ELSE Get(step.timeline)
         IN (IF timeline_key = bucket THEN <<step.action>> ELSE <<>>)
            \o BucketOf(Tail(steps), bucket)

EH_create_timeline_summary(exception_plan) ==
    [immediate |-> BucketOf(ResStepsOrEmpty(exception_plan), "immediate"),
     short_term |-> BucketOf(ResStepsOrEmpty(exception_plan), "short_term"),
     long_term |-> BucketOf(ResStepsOrEmpty(exception_plan), "long_term")]

\* exception_plan.get("severity", "medium")
SeverityOrMedium(plan) == IF IsNone(plan.severity) THEN "medium" ELSE Get(plan.severity)

RiskLevel(score, monitoring, escalation) ==
    [risk_score |-> score, monitoring_required |-> monitoring, escalation_needed |-> escalation]

EH_assess_risk_level(exception_plan) ==
    LET severity == SeverityOrMedium(exception_plan)
    IN CASE severity = "low" -> RiskLevel(2, FALSE, FALSE)
         [] severity = "medium" -> RiskLevel(5, TRUE, FALSE)
         [] severity = "high" -> RiskLevel(8, TRUE, TRUE)
         [] severity = "critical" -> RiskLevel(10, TRUE, TRUE)
         [] OTHER -> RiskLevel(5, TRUE, FALSE)

EH_enhance_exception_plan(exception_plan, policy_docs) ==
    [exception_type |-> exception_plan.exception_type,
     severity |-> exception_plan.severity,
     resolution_steps |-> exception_plan.resolution_steps,
     policy_sources |-> [i \in DOMAIN policy_docs |->
                           [source |-> policy_docs[i].source,
                            relevance_score |-> policy_docs[i].score]],
     timeline_summary |-> EH_create_timeline_summary(exception_plan),
     risk_assessment |-> EH_assess_risk_level(exception_plan)]

EH_calculate_confidence(policy_docs, exception_plan) ==
    LET base_confidence == U(75)
        policy_boost == Min(U(15), Len(policy_docs) * U(5))
        detail_boost == IF Len(ResStepsOrEmpty(exception_plan)) > 1 THEN U(5) ELSE 0
        severity == SeverityOrMedium(exception_plan)
        severity_adjustment ==
            CASE severity = "low" -> U(5)
              [] severity = "medium" -> 0
              [] severity = "high" -> 0 - U(5)
              [] severity = "critical" -> 0 - U(10)
              [] OTHER -> 0
    IN Min(U(95), base_confidence + policy_boost + detail_boost + severity_adjustment)

\* the try block of ExceptionHandlerAgent.process
EH_try(state, search, llm) ==
    LET s1 == log_reasoning(state,
                  Entry("Starting LLM-powered exception handling: ", 0, <<state.query>>))
        retrieved == EH_get_relevant_policies(search)
    IN IF retrieved.raised THEN Fail(s1, Get(retrieved.exc))
       ELSE LET policy_docs == Get(retrieved.val)
                s2 == log_reasoning(s1,
                          Entry("Retrieved", Len(policy_docs), <<"relevant policies">>))
            IN IF llm.raised THEN Fail(s2, Get(llm.exc))
               ELSE LET exception_plan == Get(llm.val) IN
                 IF ~exception_plan.isdict THEN Fail(s2, DictSetError)
                 ELSE LET enhanced_plan ==
                              EH_enhance_exception_plan(exception_plan, policy_docs)
                          confidence == EH_calculate_confidence(policy_docs, exception_plan)
                          s3 == set_confidence(s2, confidence, <<"LLM exception handling">>)
                          s4 == [s3 EXCEPT !.result = Some(enhanced_plan)]
                      IN Done(log_reasoning(s4,
                           Entry("LLM exception handling completed successfully", 0, <<>>)))

-----------------------------------------------------------------------------
(* The three agents behind one name                                        *)

Agents == {"PolicyInterpreter", "WorkflowPlanner", "ExceptionHandler"}

LLMOutcomes(agent) ==
    CASE agent = "PolicyInterpreter" -> PolicyLLMOutcomes
      [] agent = "WorkflowPlanner" -> WorkflowLLMOutcomes
      [] agent = "ExceptionHandler" -> ExceptionLLMOutcomes

PI_process(state, search, llm) == except_Exception(PI_try(state, search, llm))
WP_process(state, search, llm) == except_Exception(WP_try(state, search, llm))
EH_process(state, search, llm) == except_Exception(EH_try(state, search, llm))

\* agent.process(state)
process(agent, state, search, llm) ==
    handle_exceptions("process", "async",
        CASE agent = "PolicyInterpreter" -> PI_process(state, search, llm)
          [] agent = "WorkflowPlanner" -> WP_process(state, search, llm)
          [] agent = "ExceptionHandler" -> EH_process(state, search, llm))

-----------------------------------------------------------------------------
(* services/llm_service.py: routing                                        *)

Whitespace == {" ", "\n"}

\* str.strip() on a reply given as its pieces
RECURSIVE LStrip(_)
LStrip(t) == IF t # <<>> /\ Head(t) \in Whitespace THEN LStrip(Tail(t)) ELSE t
RECURSIVE RStrip(_)
RStrip(t) ==
    IF t # <<>> /\ t[Len(t)] \in Whitespace THEN RStrip(SubSeq(t, 1, Len(t) - 1)) ELSE t
Strip(t) == RStrip(LStrip(t))

\* what self.llm.ainvoke answers to the routing prompt
RouteReplies ==
    {Raised(Exc("ConnectionError", <<"ollama unreachable">>)),
     Returned(<<"PolicyInterpreter">>),
     Returned(<<" ", "WorkflowPlanner", "\n">>),
     Returned(<<"ExceptionHandler">>),
     Returned(<<"The", " ", "WorkflowPlanner">>)}

AnyWordIn(words, query) == \E word \in words : word \in KeywordsIn(query)

fallback_routing(query) ==
    IF AnyWordIn({"policy", "regulation", "compliance", "rule"}, query)
      THEN "PolicyInterpreter"
    ELSE IF AnyWordIn({"workflow", "procedure", "steps", "process"}, query)
      THEN "WorkflowPlanner"
    ELSE IF AnyWordIn({"problem", "error", "exception", "emergency", "issue"}, query)
      THEN "ExceptionHandler"
    ELSE "PolicyInterpreter"

\* the context bags a caller can pass: each value is of a type json can encode, or not
EmptyDict == << >>
Contexts ==
    {EmptyDict,
     <<[key |-> "department", type |-> "str"]>>,
     <<[key |-> "department", type |-> "str"], [key |-> "last_turn_at", type |-> "datetime"]>>}
JsonTypes == {"str", "int", "float", "bool", "NoneType", "list", "dict"}

\* json.dumps(context)
json_dumps(context) ==
    IF \E i \in DOMAIN context : context[i].type \notin JsonTypes
      THEN LET i == CHOOSE i \in DOMAIN context :
                       /\ context[i].type \notin JsonTypes
                       /\ \A j \in 1..(i - 1) : context[j].type \in JsonTypes
           IN Raised(Exc("TypeError", <<"Object of type ", context[i].type,
                                        " is not JSON serializable">>))
      ELSE Returned(context)

\* the try block of route_query and its except branch
route_query_try(query, reply) ==
    IF reply.raised THEN fallback_routing(query)
    ELSE LET agent_name == Strip(Get(reply.val))
         IN IF Len(agent_name) = 1 /\ agent_name[1] \in
                  {"PolicyInterpreter", "WorkflowPlanner", "ExceptionHandler"}
              THEN agent_name[1]
              ELSE fallback_routing(query)

\* LLMService.route_query: the user prompt is built before the try block is entered
route_query(query, context, reply) ==
    LET user_prompt == json_dumps(context)
    IN IF user_prompt.raised THEN user_prompt
       ELSE Returned(route_query_try(query, reply))

\* the name routing gives the orchestrator, which passes `context or {}` with no context
RoutedAgent(query, reply) == Get(route_query(query, EmptyDict, reply).val)

-----------------------------------------------------------------------------
(* agents/multi_agent_orchestrator_llm.py                                  *)

\* int((loop.time() - start_time) * 1000)
Elapsed == {250}

\* reading result.<name> for each name: the first name AgentState does not declare raises
ReadAttrs(names) ==
    IF \E i \in DOMAIN names : names[i] \notin AgentStateFields
      THEN LET i == CHOOSE i \in DOMAIN names :
                       /\ names[i] \notin AgentStateFields
                       /\ \A j \in 1..(i - 1) : names[j] \in AgentStateFields
           IN Some(AttributeError("AgentState", names[i]))
      ELSE None

\* lines 76-85: the response built from the agent's final state
PCQ_format_response(query, agent_name, result, processing_time) ==
    LET failure == ReadAttrs(<<"confidence", "reasoning_log", "result", "error">>)
    IN IF ~IsNone(failure) THEN Raised(Get(failure))
       ELSE Returned([query |-> query, agent_used |-> agent_name,
                      confidence |-> result.confidence, reasoning |-> result.reasoning,
                      result |-> result.result, error |-> result.error,
                      processing_time_ms |-> processing_time, llm_routing |-> TRUE])

PCQ_on_exception_Reraise(query, e, processing_time) == Raised(e)

\* lines 90-97: except Exception as e
PCQ_on_exception(query, e, processing_time) ==
    Returned([query |-> query, agent_used |-> "None", error |-> Str(e),
              processing_time_ms |-> processing_time])

\* the agent the if/elif chain of lines 63-70 runs
SelectedAgent(agent_name) == IF agent_name \in Agents THEN agent_name ELSE "PolicyInterpreter"

\* MultiAgentOrchestrator.process_complex_query
process_complex_query(query, reply, search, llm, processing_time) ==
    LET routed == route_query(query, EmptyDict, reply)
        agent_name == Get(routed.val)
        state == AgentState(query)
        result == process(SelectedAgent(agent_name), state, search, llm)
    IN IF routed.raised THEN PCQ_on_exception(query, Get(routed.exc), processing_time)
       ELSE IF result.raised THEN PCQ_on_exception(query, Get(result.exc), processing_time)
       ELSE LET response ==
                    PCQ_format_response(query, agent_name, Get(result.val), processing_time)
            IN IF response.raised
                 THEN PCQ_on_exception(query, Get(response.exc), processing_time)
                 ELSE response

\* the body of MultiAgentOrchestrator.process_workflow_request /
\* process_exception_request
Orch_direct_body(agent, query, search, llm) ==
    LET result_state == process(agent, AgentState(query), search, llm)
    IN IF result_state.raised THEN result_state
       ELSE LET failure == ReadAttrs(<<"confidence", "reasoning_log", "result", "error">>)
            IN IF ~IsNone(failure) THEN Raised(Get(failure))
               ELSE LET st == Get(result_state.val)
                    IN Returned([query |-> query, agent_used |-> agent,
                                 confidence |-> st.confidence, reasoning |-> st.reasoning,
                                 result |-> st.result, error |-> st.error])

OrchDirectName(agent) ==
    IF agent = "WorkflowPlanner" THEN "process_workflow_request"
    ELSE "process_exception_request"

\* @handle_exceptions async def process_workflow_request / process_exception_request
Orch_direct(agent, query, search, llm) ==
    handle_exceptions(OrchDirectName(agent), "async",
                      Orch_direct_body(agent, query, search, llm))

-----------------------------------------------------------------------------
(* services/agent_service_llm.py                                           *)

QueryProcessingError(prefix, e) == Exc("QueryProcessingError", <<prefix>> \o Str(e))

FailurePrefix(agent) ==
    CASE agent = "PolicyInterpreter" -> "Policy query failed: "
      [] agent = "WorkflowPlanner" -> "Workflow planning failed: "
      [] agent = "ExceptionHandler" -> "Exception handling failed: "

\* the try block of process_query / process_workflow_request / process_exception_request:
\* result = await self.<agent>.process_query(query, context or {}), then the dict
AS_try(agent, query, search, llm) ==
    IF "process_query" \notin AgentMethods(agent)
      THEN Raised(AttributeError(AgentClass(agent), "process_query"))
      ELSE LET result == process(agent, AgentState(query), search, llm)
           IN IF result.raised THEN result
              ELSE LET failure == ReadAttrs(<<"result", "confidence", "reasoning_log">>)
                       st == Get(result.val)
                   IN IF ~IsNone(failure) THEN Raised(Get(failure))
                      ELSE Returned([agent_used |-> agent, result |-> st.result,
                                     confidence |-> st.confidence,
                                     reasoning |-> st.reasoning])

\* AgentService.process_query (agent = PolicyInterpreter), process_workflow_request
\* (WorkflowPlanner), process_exception_request (ExceptionHandler)
AS_process(agent, query, search, llm) ==
    LET body == AS_try(agent, query, search, llm)
    IN IF body.raised
         THEN Raised(QueryProcessingError(FailurePrefix(agent), Get(body.exc)))
         ELSE body

\* AgentService.process_complex_query
AS_process_complex_query(query, reply, search, llm, processing_time) ==
    LET result == process_complex_query(query, reply, search, llm, processing_time)
    IN IF result.raised
         THEN Raised(QueryProcessingError("Complex query failed: ", Get(result.exc)))
         ELSE result

-----------------------------------------------------------------------------
(* services/query_service.py                                               *)

\* the context handed to _generate_template_answer: a text, or None
TemplateContexts == {None, Some("Visitors must sign in")}

\* the body: context.split() first of all
QS_template_answer_body(query, context) ==
    IF context = None THEN Raised(AttributeError("NoneType", "split"))
    ELSE Returned([prefix |-> IF "policy" \in KeywordsIn(query)
                                THEN "The relevant policies state: "
                                ELSE "Based on the available documentation: ",
                   context |-> Get(context)])

\* @handle_exceptions def _generate_template_answer
QS_generate_template_answer(query, context) ==
    handle_exceptions("_generate_template_answer", "sync",
                      QS_template_answer_body(query, context))

-----------------------------------------------------------------------------
(* The agent layer as a machine: one operation at a time is called with    *)
(* inputs and collaborator answers drawn from the sets above, and `call`   *)
(* records it with its outcome until the caller has taken the outcome.     *)

\* the reasoning a state handed to process may already hold
PriorReasonings == {<<>>, <<Entry("Earlier step", 0, <<>>)>>}

Call(op, agent, state, reply, search, llm, processing_time, outcome) ==
    [op |-> op, agent |-> agent, state |-> state, reply |-> reply, search |-> search,
     llm |-> llm, processing_time |-> processing_time, outcome |-> outcome]

InitAG == call = None

\* agent.process(state)
AgentProcess(agent) ==
    /\ call = None
    /\ \E query \in Queries, prior \in PriorReasonings, search \in SearchOutcomes,
          llm \in LLMOutcomes(agent) :
         LET state == [AgentState(query) EXCEPT !.reasoning = prior]
         IN call' = Some(Call("process", agent, state, None, search, llm, 0,
                              process(agent, state, search, llm)))
    /\ UNCHANGED <<varsWS, varsRL, varsX>>

\* orchestrator.process_complex_query(query, context, multi_step)
OrchestratorComplex ==
    /\ call = None
    /\ \E query \in Queries, reply \in RouteReplies, search \in SearchOutcomes,
          processing_time \in Elapsed :
         LET agent == SelectedAgent(RoutedAgent(query, reply))
         IN \E llm \in LLMOutcomes(agent) :
              call' = Some(Call("orchestrator.process_complex_query", agent,
                                AgentState(query), Some(reply), search, llm, processing_time,
                                process_complex_query(query, reply, search, llm,
                                                      processing_time)))
    /\ UNCHANGED <<varsWS, varsRL, varsX>>

\* orchestrator.process_workflow_request / process_exception_request
OrchestratorDirect(agent) ==
    /\ call = None
    /\ \E query \in Queries, search \in SearchOutcomes, llm \in LLMOutcomes(agent) :
         call' = Some(Call("orchestrator.direct", agent, AgentState(query), None, search, llm,
                           0, Orch_direct(agent, query, search, llm)))
    /\ UNCHANGED <<varsWS, varsRL, varsX>>

\* agent_service.process_query / process_workflow_request / process_exception_request
ServiceProcess(agent) ==
    /\ call = None
    /\ \E query \in Queries, search \in SearchOutcomes, llm \in LLMOutcomes(agent) :
         call' = Some(Call("agent_service.process", agent, AgentState(query), None, search,
                           llm, 0, AS_process(agent, query, search, llm)))
    /\ UNCHANGED <<varsWS, varsRL, varsX>>

\* agent_service.process_complex_query
ServiceComplex ==
    /\ call = None
    /\ \E query \in Queries, reply \in RouteReplies, search \in SearchOutcomes,
          processing_time \in Elapsed :
         LET agent == SelectedAgent(RoutedAgent(query, reply))
         IN \E llm \in LLMOutcomes(agent) :
              call' = Some(Call("agent_service.process_complex_query", agent,
                                AgentState(query), Some(reply), search, llm, processing_time,
                                AS_process_complex_query(query, reply, search, llm,
                                                         processing_time)))
    /\ UNCHANGED <<varsWS, varsRL, varsX>>

\* query_service._generate_template_answer(query, context, sources)
TemplateAnswer ==
    /\ call = None
    /\ \E query \in Queries, context \in TemplateContexts :
         call' = Some([op |-> "query_service._generate_template_answer", query |-> query,
                       context |-> context,
                       inner |-> QS_template_answer_body(query, context),
                       outcome |-> QS_generate_template_answer(query, context)])
    /\ UNCHANGED <<varsWS, varsRL, varsX>>

\* the queries routing is asked about
RoutingQueries ==
    Queries \cup {"Policy on the discharge workflow", "emergency procedure",
                  "steps after a compliance problem", "system error",
                  "billing issue in processing", "hello"}

\* llm_service.route_query(query, context)
RouteQuery ==
    /\ call = None
    /\ \E query \in RoutingQueries, context \in Contexts, reply \in RouteReplies :
         call' = Some([op |-> "route_query", query |-> query, context |-> context,
                       reply |-> reply, outcome |-> route_query(query, context, reply)])
    /\ UNCHANGED <<varsWS, varsRL, varsX>>

\* the caller takes the outcome
CallReturns ==
    /\ call # None
    /\ call' = None
    /\ UNCHANGED <<varsWS, varsRL, varsX>>

NextAG ==
    \/ \E agent \in Agents : AgentProcess(agent)
    \/ OrchestratorComplex
    \/ \E agent \in {"WorkflowPlanner", "ExceptionHandler"} : OrchestratorDirect(agent)
    \/ \E agent \in Agents : ServiceProcess(agent)
    \/ ServiceComplex
    \/ TemplateAnswer
    \/ RouteQuery
    \/ CallReturns

-----------------------------------------------------------------------------
(* api/v1/websocket.py: the real-time gateway                              *)

MaxFrames == 2        \* frames clients send in all
MaxClock == 2         \* last tick of the clock
TicksPerSecond == 2   \* clock ticks within one second of datetime.now()

\* the connection ids uuid4 hands out, in order
Conns == {1, 2}
\* message.get("query", "") of the frames clients send
WsQueries == {"visitor policy"}
Users == {"alice", "bob"}

\* datetime.now().strftime('%Y%m%d_%H%M%S'): the time cut to whole seconds
Strftime(t) == t \div TicksPerSecond

\* f"ws_{user_id}_{...}"
SessionId(user_id, t) == [prefix |-> "ws", user_id |-> user_id, stamp |-> Strftime(t)]

\* the text frames a client sends: not JSON, JSON that is no object, or an object whose
\* "type" is one of the four dispatched types or something else
ClientFrames ==
    {[json |-> "invalid", type |-> None, query |-> ""],
     [json |-> "list", type |-> None, query |-> ""]}
    \cup [json : {"object"},
          type : {Some(t) : t \in {"query", "workflow_request", "exception_request",
                                   "complex_query", "ping"}},
          query : WsQueries]

json_loads(data) ==
    IF data.json = "invalid"
      THEN Raised(Exc("JSONDecodeError", <<"Expecting value: line 1 column 1 (char 0)">>))
      ELSE Returned(data)

\* str() of message.get("type") inside an f-string
FormatType(t) == IF IsNone(t) THEN "None" ELSE Get(t)

Frame(type, message, sid, result, context, cause) ==
    [type |-> type, message |-> message, session_id |-> sid, result |-> result,
     session_context |-> context, cause |-> cause]

ErrorFrame(message, cause) == Frame("error", message, None, None, None, cause)

\* ConnectionManager.send_message: nothing is sent for an id that is not in the map
send_message(conns, o, c, frame) ==
    IF c \in conns THEN [o EXCEPT ![c] = Append(@, frame)] ELSE o

\* ConnectionManager.disconnect
disconnect(conns, c) == conns \ {c}

\* user_sessions[connection_id] = session_id
Bind_Skipped(us, c, sid) == us
Bind(us, c, sid) == [x \in DOMAIN us \cup {c} |-> IF x = c THEN sid ELSE us[x]]

Unbind_Kept(us, c) == us

\* if connection_id in user_sessions: del user_sessions[connection_id]
Unbind(us, c) == [x \in DOMAIN us \ {c} |-> us[x]]

\* websocket.receive_text(): the oldest frame not yet received, and what stays queued
Received_Newest(q) == [frame |-> q[Len(q)], rest |-> SubSeq(q, 1, Len(q) - 1)]
Received(q) == [frame |-> Head(q), rest |-> Tail(q)]

\* conversation_service (services/conversation_service.py is not in the source tree)
create_session(ss, sid, user_id) ==
    [x \in DOMAIN ss \cup {sid} |->
        IF x = sid THEN [user_id |-> user_id, turns |-> <<>>] ELSE ss[x]]
get_conversation_context(ss, sid) == [turn_count |-> Len(ss[sid].turns)]
add_turn(ss, sid, turn) == [ss EXCEPT ![sid].turns = Append(@, turn)]

\* the handler and the agent of each dispatched type
KnownTypes == {"query", "workflow_request", "exception_request", "complex_query"}
AgentOfType(t) ==
    CASE t = "query" -> "PolicyInterpreter"
      [] t = "workflow_request" -> "WorkflowPlanner"
      [] t = "exception_request" -> "ExceptionHandler"
ResponseType(t) ==
    CASE t = "query" -> "query_response"
      [] t = "workflow_request" -> "workflow_response"
      [] t = "exception_request" -> "exception_response"
      [] t = "complex_query" -> "complex_response"
TurnLabel(t) ==
    CASE t = "query" -> "PolicyInterpreter"
      [] t = "workflow_request" -> "WorkflowPlanner"
      [] t = "exception_request" -> "ExceptionHandler"
      [] t = "complex_query" -> "MultiAgent"

\* result.get("confidence", 0.0)
ConfidenceOf(result) == IF "confidence" \in DOMAIN result THEN result.confidence ELSE 0

Live == {"welcome", "recv", "dispatch", "agent"}
OtherSuspended(c) == \E d \in Conns \ {c} : pc[d] = "agent"

InitWS ==
    /\ active_connections = {}
    /\ user_sessions = <<>>
    /\ sessions = <<>>
    /\ clock = 0
    /\ nconn = 0
    /\ connUser = [c \in Conns |-> ""]
    /\ pc = [c \in Conns |-> "none"]
    /\ session_id = [c \in Conns |-> None]
    /\ inbox = [c \in Conns |-> <<>>]
    /\ clientClosed = [c \in Conns |-> FALSE]
    /\ cur = [c \in Conns |-> None]
    /\ taken = [c \in Conns |-> <<>>]
    /\ out = [c \in Conns |-> <<>>]
    /\ nsent = 0
    /\ overlap = FALSE

\* ---- the clients ----

\* a client opens /ws/{user_id}: uuid4 gives the connection a fresh id
Connect(user_id) ==
    /\ nconn < Cardinality(Conns)
    /\ nconn = 0 => user_id = "alice"   \* the gateway treats all user ids alike
    /\ nconn' = nconn + 1
    /\ connUser' = [connUser EXCEPT ![nconn + 1] = user_id]
    /\ pc' = [pc EXCEPT ![nconn + 1] = "accept"]
    /\ UNCHANGED <<active_connections, user_sessions, sessions, clock, session_id, inbox,
                   clientClosed, cur, taken, out, nsent, overlap, varsRL, varsAG, varsX>>

\* a client sends a text frame; seq numbers the frames of one connection as sent
ClientSend(c, data) ==
    /\ pc[c] \in Live
    /\ ~clientClosed[c]
    /\ nsent < MaxFrames
    /\ nsent' = nsent + 1
    /\ inbox' = [inbox EXCEPT ![c] =
                   Append(@, [seq |-> Len(taken[c]) + Len(inbox[c]) + 1, data |-> data])]
    /\ UNCHANGED <<active_connections, user_sessions, sessions, clock, nconn, connUser, pc,
                   session_id, clientClosed, cur, taken, out, overlap, varsRL, varsAG, varsX>>

\* a client closes its end
ClientClose(c) ==
    /\ pc[c] \in Live
    /\ ~clientClosed[c]
    /\ clientClosed' = [clientClosed EXCEPT ![c] = TRUE]
    /\ UNCHANGED <<active_connections, user_sessions, sessions, clock, nconn, connUser, pc,
                   session_id, inbox, cur, taken, out, nsent, overlap, varsRL, varsAG, varsX>>

\* ---- websocket_endpoint ----

\* lines 72-77: accept() has returned; register the socket, derive the session id from
\* datetime.now() (the clock never runs backwards), create the session and bind it; the
\* coroutine then awaits the welcome send
EndpointSetup(c) ==
    /\ pc[c] = "accept"
    /\ \E now \in clock..MaxClock :
         LET sid == SessionId(connUser[c], now)
         IN /\ clock' = now
            /\ active_connections' = active_connections \cup {c}
            /\ session_id' = [session_id EXCEPT ![c] = Some(sid)]
            /\ sessions' = create_session(sessions, sid, connUser[c])
            /\ user_sessions' = Bind(user_sessions, c, sid)
    /\ pc' = [pc EXCEPT ![c] = "welcome"]
    /\ UNCHANGED <<nconn, connUser, inbox, clientClosed, cur, taken, out, nsent,
                   overlap, varsRL, varsAG, varsX>>

\* lines 80-85: the welcome message
SendWelcome(c) ==
    /\ pc[c] = "welcome"
    /\ out' = send_message(active_connections, out, c,
                  Frame("connection_established", <<"Connected to Healthcare Copilot">>,
                        session_id[c], None, None, 0))
    /\ pc' = [pc EXCEPT ![c] = "recv"]
    /\ UNCHANGED <<active_connections, user_sessions, sessions, clock, nconn, connUser,
                   session_id, inbox, clientClosed, cur, taken, nsent, overlap,
                   varsRL, varsAG, varsX>>

\* lines 89-92 and 111-128: receive_text returns a frame that decodes; then
\* handle_websocket_message up to its first send
ReceiveMessage(c) ==
    /\ pc[c] = "recv"
    /\ inbox[c] # <<>>
    /\ LET r == Received(inbox[c])
           n == r.frame.seq
           decoded == json_loads(r.frame.data)
       IN /\ ~decoded.raised
          /\ inbox' = [inbox EXCEPT ![c] = r.rest]
          /\ taken' = [taken EXCEPT ![c] = Append(@, r.frame.seq)]
          /\ LET message == Get(decoded.val) IN
             IF message.json # "object"
               THEN \* message.get raises AttributeError: lines 145-151
                    /\ out' = send_message(active_connections, out, c,
                                  ErrorFrame(<<"Processing error: ">> \o Str(DictGetError), n))
                    /\ UNCHANGED <<cur, pc>>
             ELSE IF c \notin DOMAIN user_sessions
               THEN \* lines 115-121
                    /\ out' = send_message(active_connections, out, c,
                                  ErrorFrame(<<"No active session">>, n))
                    /\ UNCHANGED <<cur, pc>>
               ELSE \* lines 124-128: the typing indicator
                    /\ out' = send_message(active_connections, out, c,
                                  Frame("agent_typing",
                                        <<"Agent is processing your request...">>,
                                        None, None, None, n))
                    /\ cur' = [cur EXCEPT ![c] =
                                 Some([message |-> message, seq |-> n,
                                       session_id |-> user_sessions[c],
                                       conv_context |-> None])]
                    /\ pc' = [pc EXCEPT ![c] = "dispatch"]
    /\ overlap' = (overlap \/ OtherSuspended(c))
    /\ UNCHANGED <<active_connections, user_sessions, sessions, clock, nconn, connUser,
                   session_id, clientClosed, nsent, varsRL, varsAG, varsX>>

\* lines 89-90 and 100-106: json.loads raises; except Exception reports it and the
\* endpoint returns
ReceiveInvalid(c) ==
    /\ pc[c] = "recv"
    /\ inbox[c] # <<>>
    /\ LET r == Received(inbox[c])
           decoded == json_loads(r.frame.data)
       IN /\ decoded.raised
          /\ inbox' = [inbox EXCEPT ![c] = r.rest]
          /\ taken' = [taken EXCEPT ![c] = Append(@, r.frame.seq)]
          /\ out' = send_message(active_connections, out, c,
                        ErrorFrame(<<"Connection error: ">> \o Str(Get(decoded.exc)),
                                   r.frame.seq))
    /\ pc' = [pc EXCEPT ![c] = "closed"]
    /\ overlap' = (overlap \/ OtherSuspended(c))
    /\ UNCHANGED <<active_connections, user_sessions, sessions, clock, nconn, connUser,
                   session_id, clientClosed, cur, nsent, varsRL, varsAG, varsX>>

\* lines 89 and 94-98: receive_text raises WebSocketDisconnect
ReceiveDisconnect(c) ==
    /\ pc[c] = "recv"
    /\ inbox[c] = <<>>
    /\ clientClosed[c]
    /\ active_connections' = disconnect(active_connections, c)
    /\ user_sessions' = Unbind(user_sessions, c)
    /\ pc' = [pc EXCEPT ![c] = "closed"]
    /\ UNCHANGED <<sessions, clock, nconn, connUser, session_id, inbox, clientClosed, cur,
                   taken, out, nsent, overlap, varsRL, varsAG, varsX>>

\* ---- handle_websocket_message, after the typing indicator has gone out ----

CurType(c) == Get(cur[c]).message.type
\* the frame the handler in flight is answering
CurCause(c) == Get(cur[c]).seq
\* message_type is one of the types the if/elif chain of lines 130-137 names
TypeIsKnown(c) == IF IsNone(CurType(c)) THEN FALSE ELSE Get(CurType(c)) \in KnownTypes

\* lines 130-135 with handle_query_message / handle_workflow_message /
\* handle_exception_message up to the agent call: the call fails before it suspends when
\* the agent has no process_query, and lines 145-151 report it; otherwise it suspends
DispatchAgent(c) ==
    /\ pc[c] = "dispatch"
    /\ ~IsNone(CurType(c))
    /\ Get(CurType(c)) \in {"query", "workflow_request", "exception_request"}
    /\ LET h == Get(cur[c])
           agent == AgentOfType(Get(CurType(c)))
           conv_context == get_conversation_context(sessions, h.session_id)
       IN IF "process_query" \notin AgentMethods(agent)
            THEN /\ out' = send_message(active_connections, out, c,
                               ErrorFrame(<<"Processing error: ">> \o
                                   Str(QueryProcessingError(FailurePrefix(agent),
                                          AttributeError(AgentClass(agent), "process_query"))),
                                   CurCause(c)))
                 /\ cur' = [cur EXCEPT ![c] = None]
                 /\ pc' = [pc EXCEPT ![c] = "recv"]
            ELSE /\ cur' = [cur EXCEPT ![c] = Some([h EXCEPT !.conv_context = Some(conv_context)])]
                 /\ pc' = [pc EXCEPT ![c] = "agent"]
                 /\ out' = out
    /\ overlap' = (overlap \/ OtherSuspended(c))
    /\ UNCHANGED <<active_connections, user_sessions, sessions, clock, nconn, connUser,
                   session_id, inbox, clientClosed, taken, nsent, varsRL, varsAG, varsX>>

\* lines 136-137 with handle_complex_message up to the agent call, which suspends in
\* the routing call to the LLM
DispatchComplex(c) ==
    /\ pc[c] = "dispatch"
    /\ CurType(c) = Some("complex_query")
    /\ LET h == Get(cur[c])
           conv_context == get_conversation_context(sessions, h.session_id)
       IN cur' = [cur EXCEPT ![c] = Some([h EXCEPT !.conv_context = Some(conv_context)])]
    /\ pc' = [pc EXCEPT ![c] = "agent"]
    /\ overlap' = (overlap \/ OtherSuspended(c))
    /\ UNCHANGED <<active_connections, user_sessions, sessions, clock, nconn, connUser,
                   session_id, inbox, clientClosed, taken, out, nsent, varsRL, varsAG, varsX>>

UnknownTypeReply_Silent(c) == out

\* lines 138-143: the reply to a type no branch handles
UnknownTypeReply(c) ==
    send_message(active_connections, out, c,
        ErrorFrame(<<"Unknown message type: ", FormatType(CurType(c))>>, CurCause(c)))

\* lines 138-143
DispatchUnknown(c) ==
    /\ pc[c] = "dispatch"
    /\ ~TypeIsKnown(c)
    /\ out' = UnknownTypeReply(c)
    /\ cur' = [cur EXCEPT ![c] = None]
    /\ pc' = [pc EXCEPT ![c] = "recv"]
    /\ overlap' = (overlap \/ OtherSuspended(c))
    /\ UNCHANGED <<active_connections, user_sessions, sessions, clock, nconn, connUser,
                   session_id, inbox, clientClosed, taken, nsent, varsRL, varsAG, varsX>>

\* every outcome agent_service.process_complex_query(query, ...) can have, over all the
\* answers of the LLM and the vector store
ComplexOutcomes ==
    [query \in WsQueries |->
       UNION {{AS_process_complex_query(query, reply, search, llm, processing_time) :
                 llm \in LLMOutcomes(SelectedAgent(RoutedAgent(query, reply))),
                 search \in SearchOutcomes, processing_time \in Elapsed} :
              reply \in RouteReplies}]

\* every outcome of agent_service.process_query / process_workflow_request /
\* process_exception_request
ProcessOutcomes ==
    [agent \in Agents |->
       [query \in WsQueries |->
          {AS_process(agent, query, search, llm) :
             search \in SearchOutcomes, llm \in LLMOutcomes(agent)}]]

\* the agent call returns or raises: the rest of handle_*_message (the turn is saved and
\* the response sent), or lines 145-151
AgentReturns(c) ==
    /\ pc[c] = "agent"
    /\ LET h == Get(cur[c])
           t == Get(h.message.type)
       IN \E outcome \in IF t = "complex_query"
                           THEN ComplexOutcomes[h.message.query]
                           ELSE ProcessOutcomes[AgentOfType(t)][h.message.query] :
            IF outcome.raised
              THEN /\ out' = send_message(active_connections, out, c,
                                 ErrorFrame(<<"Processing error: ">> \o
                                            Str(Get(outcome.exc)), CurCause(c)))
                   /\ sessions' = sessions
              ELSE LET result == Get(outcome.val)
                       turn == [agent_type |-> TurnLabel(t),
                                user_query |-> h.message.query,
                                confidence |-> ConfidenceOf(result)]
                   IN /\ sessions' = add_turn(sessions, h.session_id, turn)
                      /\ out' = send_message(active_connections, out, c,
                                    Frame(ResponseType(t), <<>>, None, Some(result),
                                          h.conv_context, CurCause(c)))
    /\ cur' = [cur EXCEPT ![c] = None]
    /\ pc' = [pc EXCEPT ![c] = "recv"]
    /\ UNCHANGED <<active_connections, user_sessions, clock, nconn, connUser, session_id,
                   inbox, clientClosed, taken, nsent, overlap, varsRL, varsAG, varsX>>

NextWS ==
    \/ \E user_id \in Users : Connect(user_id)
    \/ \E c \in Conns, data \in ClientFrames : ClientSend(c, data)
    \/ \E c \in Conns : ClientClose(c)
    \/ \E c \in Conns : EndpointSetup(c)
    \/ \E c \in Conns : SendWelcome(c)
    \/ \E c \in Conns : ReceiveMessage(c)
    \/ \E c \in Conns : ReceiveInvalid(c)
    \/ \E c \in Conns : ReceiveDisconnect(c)
    \/ \E c \in Conns : DispatchAgent(c)
    \/ \E c \in Conns : DispatchComplex(c)
    \/ \E c \in Conns : DispatchUnknown(c)
    \/ \E c \in Conns : AgentReturns(c)

-----------------------------------------------------------------------------
(* services/auth_service.py: RateLimiter                                   *)

RlLimit == 2          \* the limit every call passes
RlWindow == 60        \* the window every call passes, in seconds
MaxJumps == 3         \* how often the clock moves between calls
MaxCalls == 4         \* is_allowed calls in all

SecondsPerDay == 86400
Keys == {"10.0.0.1", "10.0.0.2"}

\* how far the clock moves between two calls
TimeSteps == {1, RlWindow - 1, RlWindow, SecondsPerDay}

\* timedelta.seconds: the seconds field of the normalised (days, seconds, microseconds)
TimedeltaSeconds(now, req_time) == (now - req_time) % SecondsPerDay

\* [req_time for req_time in self.requests[key] if (now - req_time).seconds < window]
RECURSIVE Pruned(_, _, _)
Pruned(times, now, window) ==
    IF times = <<>> THEN <<>>
    ELSE IF TimedeltaSeconds(now, Head(times)) < window
         THEN <<Head(times)>> \o Pruned(Tail(times), now, window)
         ELSE Pruned(Tail(times), now, window)

InitRL ==
    /\ requests = [k \in Keys |-> <<>>]
    /\ rlNow = 0
    /\ rlJumps = 0
    /\ rlCalls = 0
    /\ rlLast = None

\* a variant that records the timestamp of a denied call too
IsAllowed_RecordDenied(key) ==
    /\ rlCalls < MaxCalls
    /\ rlCalls' = rlCalls + 1
    /\ LET kept == Pruned(requests[key], rlNow, RlWindow)
           allowed == Len(kept) < RlLimit
       IN /\ requests' = [requests EXCEPT ![key] = Append(kept, rlNow)]
          /\ rlLast' = Some([key |-> key, at |-> rlNow, before |-> requests[key],
                             allowed |-> allowed])
    /\ UNCHANGED <<rlNow, rlJumps, varsWS, varsAG, varsX>>

\* RateLimiter.is_allowed(key, RlLimit, RlWindow)
IsAllowed(key) ==
    /\ rlCalls < MaxCalls
    /\ rlCalls' = rlCalls + 1
    /\ LET kept == Pruned(requests[key], rlNow, RlWindow)
           allowed == Len(kept) < RlLimit
       IN /\ requests' = [requests EXCEPT ![key] = IF allowed THEN Append(kept, rlNow) ELSE kept]
          /\ rlLast' = Some([key |-> key, at |-> rlNow, before |-> requests[key],
                             allowed |-> allowed])
    /\ UNCHANGED <<rlNow, rlJumps, varsWS, varsAG, varsX>>

\* time passes
Advance(d) ==
    /\ rlJumps < MaxJumps
    /\ rlJumps' = rlJumps + 1
    /\ rlNow' = rlNow + d
    /\ UNCHANGED <<requests, rlCalls, rlLast, varsWS, varsAG, varsX>>

NextRL ==
    \/ \E key \in Keys : IsAllowed(key)
    \/ \E d \in TimeSteps : Advance(d)

-----------------------------------------------------------------------------
(* api/v1/queries.py, api/v1/multi_agents.py, api/v1/documents.py: the     *)
(* HTTP routers. A request is one operation recorded in `call`.            *)

\* raise HTTPException(status_code=..., detail=...)
HTTPException(status_code, detail) ==
    [cls |-> "HTTPException", status_code |-> status_code, detail |-> detail]

\* the methods class AgentService defines
AgentServiceMethods ==
    {"process_query", "process_workflow_request", "process_exception_request",
     "process_complex_query", "get_available_agents", "health_check"}

\* what a policy interpretation handed to the query router answers: a
\* QueryProcessingError, another exception, or a dict with or without a direct answer
InterpretOutcomes ==
    {Raised(Exc("QueryProcessingError", <<"Policy query failed: ", "timeout">>)),
     Raised(Exc("KeyError", <<"'result'">>))}
    \cup {Returned([result |-> [direct_answer |-> a], confidence |-> c]) :
            a \in {None, Some("Authorization is required")}, c \in {U(10), U(80)}}

\* QueryResponse(query=..., answer=..., results=..., confidence=..., processing_time_ms=100)
QueryResponse(query, result) ==
    [query |-> query,
     answer |-> IF result.result.direct_answer = None THEN "No answer available"
                ELSE Get(result.result.direct_answer),
     confidence |-> result.confidence,
     processing_time_ms |-> 100]

\* the try block of query_policies: agent_service.interpret_policy(...), then the response
QP_try(query, interp) ==
    IF "interpret_policy" \notin AgentServiceMethods
      THEN Raised(AttributeError("AgentService", "interpret_policy"))
      ELSE IF interp.raised THEN interp
           ELSE Returned(QueryResponse(query, Get(interp.val)))

\* POST /api/v1/query
query_policies(query, interp) ==
    LET body == QP_try(query, interp)
    IN IF ~body.raised THEN body
       ELSE IF Get(body.exc).cls = "QueryProcessingError"
              THEN Raised(HTTPException(400, Str(Get(body.exc))))
              ELSE Raised(HTTPException(500,
                            <<"Internal server error during ", "query processing">>))

PostQuery ==
    /\ call = None
    /\ \E query \in Queries, interp \in InterpretOutcomes :
         call' = Some([op |-> "POST /api/v1/query", query |-> query, interp |-> interp,
                       service |-> QP_try(query, interp),
                       outcome |-> query_policies(query, interp)])
    /\ UNCHANGED <<varsWS, varsRL, varsX>>

\* plan_workflow, handle_exception, process_complex_query of api/v1/multi_agents.py:
\* the awaited service call, then the two except clauses
MA_endpoint(result, what) ==
    IF ~result.raised THEN result
    ELSE IF Get(result.exc).cls = "QueryProcessingError"
           THEN Raised(HTTPException(400, Get(result.exc).msg))
           ELSE Raised(HTTPException(500, <<"Internal server error during ", what>>))

MA_what(agent) ==
    IF agent = "WorkflowPlanner" THEN "workflow planning" ELSE "exception handling"

\* POST /api/v1/workflow (agent = WorkflowPlanner), POST /api/v1/exception
PostAgent(agent) ==
    /\ call = None
    /\ \E query \in Queries, search \in SearchOutcomes, llm \in LLMOutcomes(agent) :
         LET result == AS_process(agent, query, search, llm)
         IN call' = Some([op |-> "POST /api/v1/workflow|exception", agent |-> agent,
                          query |-> query, search |-> search, llm |-> llm,
                          service |-> result,
                          outcome |-> MA_endpoint(result, MA_what(agent))])
    /\ UNCHANGED <<varsWS, varsRL, varsX>>

\* POST /api/v1/complex
PostComplex ==
    /\ call = None
    /\ \E query \in WsQueries : \E result \in ComplexOutcomes[query] :
         call' = Some([op |-> "POST /api/v1/complex", query |-> query, service |-> result,
                       outcome |-> MA_endpoint(result, "complex query processing")])
    /\ UNCHANGED <<varsWS, varsRL, varsX>>

-----------------------------------------------------------------------------
(* services/document_service.py, VectorStoreService.add_document and       *)
(* POST /api/v1/ingest                                                     *)

\* settings.max_file_size_mb * 1024 * 1024
MaxSizeBytes == 52428800
\* settings.supported_file_types.split(",")
SupportedTypes == {"pdf", "txt", "docx"}

DocumentProcessingError(msg) == Exc("DocumentProcessingError", msg)
VectorStoreError(msg) == Exc("VectorStoreError", msg)

\* the uploads: the extension of the file name and the length of the content
UploadFiles == [ext : {"pdf", "docx", "exe"}, size : {1024, MaxSizeBytes + 1}]
MaxIngests == 2       \* uploads that get a document id
\* writing the upload to disk
WriteOutcomes == {Returned(None), Raised(Exc("OSError", <<"No space left on device">>))}
\* reading the text out of the saved pdf or txt file, then writing the extracted text
ExtractOutcomes ==
    {Returned("Visitors must sign in"),
     Raised(DocumentProcessingError(<<"No text content could be extracted from PDF">>)),
     Raised(Exc("PermissionError", <<"Permission denied: ", "processed">>))}
\* how many chunks the splitter makes of the text
ChunkCounts == {0, 2}
\* collection.add
CollectionAddOutcomes == {Returned(None), Raised(Exc("ValueError", <<"embedding failed">>))}

\* DocumentProcessor.validate_file
validate_file(file) ==
    handle_exceptions("validate_file", "sync",
      IF file.size > MaxSizeBytes
        THEN Raised(DocumentProcessingError(
               <<"File size ", ToString(file.size),
                 " bytes exceeds maximum allowed size of ", ToString(MaxSizeBytes), " bytes">>))
      ELSE IF file.ext \notin SupportedTypes
        THEN Raised(DocumentProcessingError(
               <<"File type '", file.ext, "' not supported. Supported types: ",
                 "['pdf', 'txt', 'docx']">>))
      ELSE Returned(None))

\* DocumentProcessor.save_file: doc_id is the uuid4 it draws
save_file(doc_id, written) ==
    handle_exceptions("save_file", "sync",
      IF written.raised
        THEN Raised(DocumentProcessingError(<<"Failed to save file: ">> \o Str(Get(written.exc))))
        ELSE Returned(doc_id))

extract_text_DocxAsText(file, extracted) ==
    handle_exceptions("extract_text", "sync",
      IF file.ext \in {"pdf", "txt", "docx"} THEN extracted
      ELSE Raised(DocumentProcessingError(
             <<"Text extraction not implemented for file type: ", ".", file.ext>>)))

\* DocumentProcessor.extract_text on the file save_file has just written: extraction
\* raises DocumentProcessingError, writing the extracted text is outside any try
extract_text(file, extracted) ==
    handle_exceptions("extract_text", "sync",
      IF file.ext = "pdf" THEN extracted
      ELSE IF file.ext \in {"txt"} THEN extracted
      ELSE Raised(DocumentProcessingError(
             <<"Text extraction not implemented for file type: ", ".", file.ext>>)))

\* DocumentProcessor.get_document_info
get_document_info(doc_id, processed) ==
    handle_exceptions("get_document_info", "sync",
      IF doc_id \notin processed THEN Returned(None)
      ELSE Returned(Some([id |-> doc_id, status |-> "processed"])))

\* VectorStoreService.split_text
split_text(chunks) ==
    handle_exceptions("split_text", "sync",
      IF chunks = 0
        THEN Raised(VectorStoreError(<<"Text splitting failed: ">> \o
                      Str(VectorStoreError(<<"No text chunks generated from document">>))))
        ELSE Returned(chunks))

\* VectorStoreService.add_document
add_document(chunks, added) ==
    LET chunk_docs == split_text(chunks)
        body == IF chunk_docs.raised THEN chunk_docs
                ELSE IF added.raised THEN added
                ELSE Returned(Get(chunk_docs.val))
    IN handle_exceptions("add_document", "sync",
         IF body.raised
           THEN Raised(VectorStoreError(<<"Failed to add document to vector store: ">> \o
                                        Str(Get(body.exc))))
           ELSE body)

\* the try block of upload_document
UD_try(file, uuid, written, extracted, chunks, added) ==
    LET validated == validate_file(file)
        doc_id == save_file(uuid, written)
        text_content == extract_text(file, extracted)
        chunks_added == add_document(chunks, added)
    IN IF validated.raised THEN validated
       ELSE IF doc_id.raised THEN doc_id
       ELSE IF text_content.raised THEN text_content
       ELSE IF chunks_added.raised THEN chunks_added
       ELSE Returned([document_id |-> Get(doc_id.val), status |-> "processed",
                      message |-> <<"Document processed successfully. Added ",
                                    ToString(Get(chunks_added.val)),
                                    " text chunks to knowledge base.">>])

\* POST /api/v1/ingest
upload_document(file, uuid, written, extracted, chunks, added) ==
    LET body == UD_try(file, uuid, written, extracted, chunks, added)
    IN IF ~body.raised THEN body
       ELSE IF Get(body.exc).cls = "DocumentProcessingError"
              THEN Raised(HTTPException(400, Get(body.exc).msg))
              ELSE Raised(HTTPException(500,
                            <<"Internal server error during ", "document processing">>))

\* what one upload leaves behind: the raw file once save_file has written it, the
\* extracted text once extract_text has returned, the chunks once add_document has
PostIngest ==
    /\ call = None
    /\ ndocs < MaxIngests
    /\ \E file \in UploadFiles, written \in WriteOutcomes, extracted \in ExtractOutcomes,
          chunks \in ChunkCounts, added \in CollectionAddOutcomes :
         LET uuid == ndocs + 1
             validated == ~validate_file(file).raised
             saved == validated /\ ~save_file(uuid, written).raised
             text_saved == saved /\ ~extract_text(file, extracted).raised
             chunks_saved == text_saved /\ ~add_document(chunks, added).raised
         IN /\ call' = Some([op |-> "POST /api/v1/ingest", file |-> file,
                             doc_id |-> IF validated THEN Some(uuid) ELSE None,
                             written |-> written,
                             extracted |-> extracted, chunks |-> chunks, added |-> added,
                             service |-> UD_try(file, uuid, written, extracted, chunks, added),
                             outcome |-> upload_document(file, uuid, written, extracted,
                                                         chunks, added)])
            /\ ndocs' = IF validated THEN uuid ELSE ndocs
            /\ upload_dir' = IF saved THEN upload_dir @@ (uuid :> file.ext) ELSE upload_dir
            /\ processed_dir' = IF text_saved THEN processed_dir \cup {uuid}
                                ELSE processed_dir
            /\ collection' = IF chunks_saved THEN collection \cup {uuid} ELSE collection
    /\ UNCHANGED <<varsWS, varsRL, varsEV, varsCC>>

\* document_processor.get_document_info(doc_id)
GetDocumentInfo ==
    /\ call = None
    /\ \E doc_id \in 1..ndocs :
         call' = Some([op |-> "get_document_info", doc_id |-> doc_id,
                       outcome |-> get_document_info(doc_id, processed_dir)])
    /\ UNCHANGED <<varsWS, varsRL, varsX>>

NextAPI ==
    \/ PostQuery
    \/ \E agent \in {"WorkflowPlanner", "ExceptionHandler"} : PostAgent(agent)
    \/ PostComplex
    \/ PostIngest
    \/ GetDocumentInfo
    \/ CallReturns

-----------------------------------------------------------------------------
(* services/auth_service.py: AuthService; main.py: the admin endpoints     *)
(* Times are milliseconds since the epoch.                                 *)

MsPerSecond == 1000
\* settings.jwt_expiry_hours
JwtExpiryHours == 24
\* settings.jwt_secret_key, and a key an attacker signs with
SecretKey == "your-secret-key-change-in-production"
SigningKeys == {SecretKey, "attacker-key"}

\* self.role_permissions
RolePermissions ==
    [admin |-> {"read:all", "write:all", "delete:all", "manage:users", "manage:system",
                "view:metrics"},
     healthcare_staff |-> {"read:policies", "read:workflows", "read:exceptions",
                           "write:queries", "write:workflows", "write:exceptions"},
     supervisor |-> {"read:all", "write:all", "approve:workflows", "manage:staff",
                     "view:reports"},
     viewer |-> {"read:policies", "read:workflows"}]

\* the role claim of a token: absent, a role of the table, or another string
RoleClaims == {None, Some("admin"), Some("supervisor"), Some("healthcare_staff"),
               Some("viewer"), Some("auditor")}
\* the sub claim: absent, empty or a user id
SubClaims == {None, Some(""), Some("u1")}

\* jwt.encode(payload, key): the exp datetime becomes whole seconds
\* (timegm(exp.utctimetuple())); the signature is the key it was made with
jwt_encode(payload, key) ==
    [form |-> "jwt", key |-> key,
     payload |-> [payload EXCEPT !.exp = IF @ = None THEN None
                                         ELSE Some(Get(@) \div MsPerSecond)]]

\* AuthService.create_access_token(data, expires_delta) at time now
create_access_token(data, expires_delta, now) ==
    LET expire == IF expires_delta # None /\ Get(expires_delta) # 0
                    THEN now + Get(expires_delta)
                    ELSE now + JwtExpiryHours * 3600 * MsPerSecond
    IN jwt_encode([sub |-> data.sub, role |-> data.role, exp |-> Some(expire)], SecretKey)

\* settings.jwt_refresh_days
JwtRefreshDays == 7

\* AuthService.create_refresh_token(data) at time now
create_refresh_token(data, now) ==
    LET expire == now + JwtRefreshDays * SecondsPerDay * MsPerSecond
    IN jwt_encode([sub |-> data.sub, role |-> data.role, exp |-> Some(expire),
                   type |-> "refresh"], SecretKey)

\* jwt.decode(token, key, algorithms): a malformed token, a wrong signature and a passed
\* exp raise subclasses of InvalidTokenError; exp is not required. At now = exp the
\* releases of the library differ (exp < now, exp <= now).
jwt_decode(token, key, now) ==
    IF token.form # "jwt" THEN {Raised(Exc("DecodeError", <<"Not enough segments">>))}
    ELSE IF token.key # key
      THEN {Raised(Exc("InvalidSignatureError", <<"Signature verification failed">>))}
    ELSE IF token.payload.exp = None THEN {Returned(token.payload)}
    ELSE LET exp == Get(token.payload.exp) * MsPerSecond
             expired == Raised(Exc("ExpiredSignatureError", <<"Signature has expired">>))
         IN IF exp < now THEN {expired}
            ELSE IF exp = now THEN {expired, Returned(token.payload)}
            ELSE {Returned(token.payload)}

\* AuthService.verify_token(token) at time now, given what jwt.decode does
verify_token(decoded, now) ==
    IF decoded.raised THEN Raised(HTTPException(401, <<"Invalid token">>))
    ELSE LET payload == Get(decoded.val)
             exp == IF payload.exp = None THEN 0 ELSE Get(payload.exp)
         IN IF now > exp * MsPerSecond
              THEN Raised(HTTPException(401, <<"Token expired">>))
              ELSE Returned(payload)

\* AuthService.get_user_permissions(role)
get_user_permissions(role) ==
    IF role # None /\ Get(role) \in DOMAIN RolePermissions THEN RolePermissions[Get(role)]
    ELSE {}

\* a variant that turns away a token tagged as a refresh token
get_current_user_AccessOnly(decoded, now) ==
    LET verified == verify_token(decoded, now)
    IN IF verified.raised THEN verified
       ELSE LET payload == Get(verified.val)
            IN IF payload.sub = None \/ payload.sub = Some("")
                 THEN Raised(HTTPException(401, <<"Invalid token payload">>))
               ELSE IF "type" \in DOMAIN payload /\ payload.type = "refresh"
                 THEN Raised(HTTPException(401, <<"Invalid token type">>))
                 ELSE Returned([user_id |-> Get(payload.sub), role |-> payload.role,
                                permissions |-> get_user_permissions(payload.role)])

\* AuthService.get_current_user(credentials)
get_current_user(decoded, now) ==
    LET verified == verify_token(decoded, now)
    IN IF verified.raised THEN verified
       ELSE LET payload == Get(verified.val)
            IN IF payload.sub = None \/ payload.sub = Some("")
                 THEN Raised(HTTPException(401, <<"Invalid token payload">>))
                 ELSE Returned([user_id |-> Get(payload.sub), role |-> payload.role,
                                permissions |-> get_user_permissions(payload.role)])

check_permission_Literal(user, required_permission) ==
    required_permission \in user.permissions

\* AuthService.check_permission(user, required_permission)
check_permission(user, required_permission) ==
    IF "write:all" \in user.permissions THEN TRUE
    ELSE required_permission \in user.permissions

\* the decorator of AuthService.require_role(required_roles), given the resolved user
require_role(required_roles, user) ==
    IF user.raised THEN user
    ELSE IF Get(user.val).role = None \/ Get(Get(user.val).role) \notin required_roles
      THEN Raised(HTTPException(403, <<"Role required: ", "admin">>))
      ELSE user

\* fastapi's HTTPBearer() dependency on a request without bearer credentials: it answers
\* 'Not authenticated' with 403 or, in later releases of the framework, 401
HTTPBearerRejections ==
    {Raised(HTTPException(403, <<"Not authenticated">>)),
     Raised(HTTPException(401, <<"Not authenticated">>))}

\* when tokens are issued, the ttl they are issued with (None: the default), and how
\* long after the issue they are presented
IssueTimes == {10000, 10400}
Ttls == {None, Some(0), Some(60000)}
Offsets == {0, 59400, 59800, 60000, 60500, 3600000,
            JwtExpiryHours * 3600 * MsPerSecond - 1000,
            JwtExpiryHours * 3600 * MsPerSecond + 1000}

\* tokens the service did not issue: not a JWT at all, or a JWT signed with either key
\* whose exp is absent, passed or ahead at PresentedAt
PresentedAt == 10000
ForeignTokens ==
    {[form |-> "garbage", key |-> "", payload |-> [sub |-> None, role |-> None, exp |-> None]]}
    \cup {jwt_encode([sub |-> sub, role |-> role, exp |-> exp], key) :
            sub \in SubClaims, role \in RoleClaims, exp \in {None, Some(5000), Some(70000)},
            key \in SigningKeys}

\* verify_token on a token create_access_token issued earlier
VerifyIssued ==
    /\ call = None
    /\ \E sub \in SubClaims, role \in RoleClaims, ttl \in Ttls, at \in IssueTimes,
          d \in Offsets :
         LET token == create_access_token([sub |-> sub, role |-> role], ttl, at)
             now == at + d
         IN \E decoded \in jwt_decode(token, SecretKey, now) :
              call' = Some([op |-> "verify_token", token |-> token,
                            issued |-> Some([at |-> at, ttl |-> ttl]), now |-> now,
                            outcome |-> verify_token(decoded, now)])
    /\ UNCHANGED <<varsWS, varsRL, varsX>>

\* verify_token on any other token
VerifyForeign ==
    /\ call = None
    /\ \E token \in ForeignTokens : \E decoded \in jwt_decode(token, SecretKey, PresentedAt) :
         call' = Some([op |-> "verify_token", token |-> token, issued |-> None,
                       now |-> PresentedAt, outcome |-> verify_token(decoded, PresentedAt)])
    /\ UNCHANGED <<varsWS, varsRL, varsX>>

AdminPaths == {"/api/v1/admin/users", "/cache/stats"}

\* admin_users / cache_stats once require_admin let the request through
AdminPayload(path) ==
    IF path = "/api/v1/admin/users" THEN <<"users", "Admin access granted">>
    ELSE <<"status", "active">>

\* GET /api/v1/admin/users, GET /cache/stats: user=require_admin, then the handler
AdminRequest(path) ==
    /\ call = None
    /\ \E header \in {None} \cup {Some(t) : t \in ForeignTokens} :
         \E user \in IF header = None THEN HTTPBearerRejections
                     ELSE {get_current_user(decoded, PresentedAt) :
                             decoded \in jwt_decode(Get(header), SecretKey, PresentedAt)} :
           LET admitted == require_role({"admin"}, user)
           IN call' = Some([op |-> "GET admin", path |-> path, header |-> header,
                            now |-> PresentedAt,
                            outcome |-> IF admitted.raised THEN admitted
                                        ELSE Returned(AdminPayload(path))])
    /\ UNCHANGED <<varsWS, varsRL, varsX>>

\* the permissions asked about
Permissions ==
    UNION {RolePermissions[r] : r \in DOMAIN RolePermissions} \cup {"export:data"}

\* check_permission(user, permission) for the user get_current_user resolves
CheckPermission ==
    /\ call = None
    /\ \E role \in RoleClaims, permission \in Permissions :
         LET user == [user_id |-> "u1", role |-> role,
                      permissions |-> get_user_permissions(role)]
         IN call' = Some([op |-> "check_permission", user |-> user,
                          permission |-> permission,
                          outcome |-> check_permission(user, permission)])
    /\ UNCHANGED <<varsWS, varsRL, varsX>>

\* how long after the issue a token of either kind is presented as a bearer credential
BearerOffsets ==
    {0, 3600000, JwtExpiryHours * 3600 * MsPerSecond + 1000,
     JwtRefreshDays * SecondsPerDay * MsPerSecond - 1000,
     JwtRefreshDays * SecondsPerDay * MsPerSecond,
     JwtRefreshDays * SecondsPerDay * MsPerSecond + 1000}

\* get_current_user on a bearer token that create_access_token or create_refresh_token
\* issued earlier
PresentIssued ==
    /\ call = None
    /\ \E kind \in {"access", "refresh"}, sub \in SubClaims, role \in RoleClaims,
          at \in IssueTimes, d \in BearerOffsets :
         LET data == [sub |-> sub, role |-> role]
             token == IF kind = "refresh" THEN create_refresh_token(data, at)
                      ELSE create_access_token(data, None, at)
             now == at + d
         IN \E decoded \in jwt_decode(token, SecretKey, now) :
              call' = Some([op |-> "get_current_user", kind |-> kind, data |-> data,
                            token |-> token, at |-> at, now |-> now,
                            outcome |-> get_current_user(decoded, now)])
    /\ UNCHANGED <<varsWS, varsRL, varsX>>

NextAU ==
    \/ VerifyIssued
    \/ VerifyForeign
    \/ PresentIssued
    \/ \E path \in AdminPaths : AdminRequest(path)
    \/ CheckPermission
    \/ CallReturns

-----------------------------------------------------------------------------
-----------------------------------------------------------------------------
(* services/evaluation_service.py                                          *)
(* Scores are in thousandths. A text is what the code reads of it: its     *)
(* length, its words (text.lower().split()), and two facts about its form. *)

MaxEvals == 2         \* records the history holds

EvQueries == {[chars |-> 14, words |-> {"visitor", "policy"}]}
EvAnswers ==
    {[chars |-> 0, words |-> {}, has_structure |-> FALSE, ends_ellipsis |-> FALSE],
     [chars |-> 3, words |-> {}, has_structure |-> FALSE, ends_ellipsis |-> FALSE],
     [chars |-> 18, words |-> {"visitor", "sign", "in..."}, has_structure |-> TRUE,
      ends_ellipsis |-> TRUE],
     [chars |-> 62, words |-> {"visitor", "policy", "requires", "sign", "in."},
      has_structure |-> TRUE, ends_ellipsis |-> FALSE]}
EvDocs ==
    {<< >>,
     <<[content |-> {"visitor", "policy", "sign"}, score |-> 900]>>,
     <<[content |-> {"visitor", "policy", "sign"}, score |-> 900],
       [content |-> {"parking"}, score |-> 300]>>}
GroundTruths == {None, Some([chars |-> 7, words |-> {"visitor"}])}
Windows == {0, 1, 2, 100}

ZeroDivisionError == Exc("ZeroDivisionError", <<"division by zero">>)

\* _calculate_answer_relevance
EV_calculate_answer_relevance(query, answer) ==
    IF answer.chars = 0 \/ query.chars = 0 THEN 0
    ELSE LET word_overlap == Cardinality(query.words \cap answer.words)
             relevance == IF query.words # {}
                            THEN (word_overlap * 1000) \div Cardinality(query.words) ELSE 0
             penalized == IF answer.chars < 50 THEN (relevance * 7) \div 10 ELSE relevance
         IN Min(penalized, 1000)

\* the words of all documents: doc_words.update(content.lower().split())
DocWords(retrieved_docs) == UNION {retrieved_docs[i].content : i \in DOMAIN retrieved_docs}

\* _calculate_faithfulness
EV_calculate_faithfulness(answer, retrieved_docs) ==
    IF retrieved_docs = << >> \/ answer.chars = 0 THEN 0
    ELSE IF answer.words = {} THEN 0
    ELSE Min((Cardinality(answer.words \cap DocWords(retrieved_docs)) * 1000)
               \div Cardinality(answer.words), 1000)

\* _calculate_context_precision: overlap / len(answer_words) is evaluated for the first
\* document whatever the answer is
EV_calculate_context_precision(retrieved_docs, answer) ==
    IF retrieved_docs = << >> THEN Returned(0)
    ELSE IF answer.words = {} THEN Raised(ZeroDivisionError)
    ELSE LET relevant ==
                 {i \in DOMAIN retrieved_docs :
                    (Cardinality(answer.words \cap retrieved_docs[i].content) * 1000)
                       \div Cardinality(answer.words) > 200}
         IN Returned((Cardinality(relevant) * 1000) \div Len(retrieved_docs))

AvgScore(retrieved_docs) ==
    SumSeq([i \in DOMAIN retrieved_docs |-> retrieved_docs[i].score]) \div Len(retrieved_docs)

\* _calculate_context_recall
EV_calculate_context_recall(retrieved_docs) ==
    IF retrieved_docs = << >> THEN 0 ELSE Min(AvgScore(retrieved_docs), 1000)

\* _evaluate_retrieval_quality
EV_evaluate_retrieval_quality(retrieved_docs) ==
    IF retrieved_docs = << >> THEN [quality |-> "poor", score |-> 0]
    ELSE LET avg_score == AvgScore(retrieved_docs)
         IN [quality |-> IF avg_score > 800 THEN "excellent"
                         ELSE IF avg_score > 600 THEN "good"
                         ELSE IF avg_score > 400 THEN "fair"
                         ELSE "poor",
             score |-> avg_score, num_docs |-> Len(retrieved_docs)]

\* _check_response_completeness
EV_check_response_completeness(answer) ==
    [has_content |-> answer.words # {}, min_length_met |-> answer.chars >= 20,
     has_structure |-> answer.has_structure, is_complete |-> ~answer.ends_ellipsis]

\* _calculate_accuracy
EV_calculate_accuracy(answer, ground_truth) ==
    IF ground_truth.words = {} THEN 0
    ELSE (Cardinality(answer.words \cap ground_truth.words) * 1000)
           \div Cardinality(ground_truth.words)

\* _calculate_overall_score: weights 0.3, 0.3, 0.2, 0.2
EV_calculate_overall_score(metrics) ==
    Min((metrics.answer_relevance * 3 + metrics.faithfulness * 3
         + metrics.context_precision * 2 + metrics.context_recall * 2) \div 10, 1000)

\* EvaluationService.evaluate_rag_response up to the append: the metrics record, or what
\* building it raises; timestamp is time.time()
EV_metrics(query, answer, retrieved_docs, ground_truth, timestamp) ==
    LET context_precision == EV_calculate_context_precision(retrieved_docs, answer)
    IN IF context_precision.raised THEN context_precision
       ELSE LET metrics ==
                    [answer_relevance |-> EV_calculate_answer_relevance(query, answer),
                     faithfulness |-> EV_calculate_faithfulness(answer, retrieved_docs),
                     context_precision |-> Get(context_precision.val),
                     context_recall |-> EV_calculate_context_recall(retrieved_docs),
                     retrieval_quality |-> EV_evaluate_retrieval_quality(retrieved_docs),
                     response_completeness |-> EV_check_response_completeness(answer),
                     timestamp |-> timestamp,
                     accuracy |-> IF ground_truth # None /\ Get(ground_truth).chars # 0
                                    THEN Some(EV_calculate_accuracy(answer, Get(ground_truth)))
                                    ELSE None]
            IN Returned([m \in DOMAIN metrics \cup {"overall_score"} |->
                           IF m = "overall_score" THEN EV_calculate_overall_score(metrics)
                           ELSE metrics[m]])

\* self.metrics_history[-window_size:]
LastN(history, window_size) ==
    IF window_size = 0 \/ window_size >= Len(history) THEN history
    ELSE SubSeq(history, Len(history) - window_size + 1, Len(history))

\* self._avg
EV_avg(values) == IF values = << >> THEN 0 ELSE SumSeq(values) \div Len(values)

\* EvaluationService.get_aggregate_metrics
get_aggregate_metrics(history, window_size) ==
    IF history = << >> THEN << >>
    ELSE LET recent_metrics == LastN(history, window_size)
         IN [avg_answer_relevance |->
                 EV_avg([i \in DOMAIN recent_metrics |-> recent_metrics[i].answer_relevance]),
             avg_faithfulness |->
                 EV_avg([i \in DOMAIN recent_metrics |-> recent_metrics[i].faithfulness]),
             avg_context_precision |->
                 EV_avg([i \in DOMAIN recent_metrics |-> recent_metrics[i].context_precision]),
             avg_overall_score |->
                 EV_avg([i \in DOMAIN recent_metrics |-> recent_metrics[i].overall_score]),
             total_evaluations |-> Len(history),
             window_size |-> Len(recent_metrics)]

\* evaluation_service.evaluate_rag_response(query, answer, retrieved_docs, ground_truth)
EvaluateRag ==
    /\ call = None
    /\ Len(metrics_history) < MaxEvals
    /\ \E query \in EvQueries, answer \in EvAnswers, retrieved_docs \in EvDocs,
          ground_truth \in GroundTruths :
         LET metrics == EV_metrics(query, answer, retrieved_docs, ground_truth,
                                   Len(metrics_history) + 1)
         IN /\ call' = Some([op |-> "evaluate_rag_response", query |-> query,
                             answer |-> answer, retrieved_docs |-> retrieved_docs,
                             ground_truth |-> ground_truth, outcome |-> metrics])
            /\ metrics_history' = IF metrics.raised THEN metrics_history
                                  ELSE Append(metrics_history, Get(metrics.val))
    /\ UNCHANGED <<varsWS, varsRL, varsDS, varsCC>>

\* evaluation_service.evaluate_llm_output(prompt, output): reads the output only
EvaluateLLMOutput ==
    /\ call = None
    /\ \E output \in EvAnswers :
         call' = Some([op |-> "evaluate_llm_output", output |-> output,
                       outcome |-> Returned([output_length |-> output.chars,
                                             is_coherent |-> output.chars >= 10])])
    /\ UNCHANGED <<varsWS, varsRL, varsX>>

\* evaluation_service.get_aggregate_metrics(window_size)
GetAggregateMetrics ==
    /\ call = None
    /\ \E window_size \in Windows :
         call' = Some([op |-> "get_aggregate_metrics", window_size |-> window_size,
                       outcome |-> Returned(get_aggregate_metrics(metrics_history,
                                                                  window_size))])
    /\ UNCHANGED <<varsWS, varsRL, varsX>>

NextEV ==
    \/ EvaluateRag
    \/ EvaluateLLMOutput
    \/ GetAggregateMetrics
    \/ CallReturns

-----------------------------------------------------------------------------
(* Concurrent requests on one WorkflowPlannerAgent instance                *)
(* (agents/multi_agent_orchestrator_llm.py, agents/workflow_planner.py)    *)
(* A list object lives in heap; AgentState.reasoning holds its index.      *)
(* heap[1] is the list the class statement gives as the field's default.   *)

MaxRequests == 2      \* requests in flight together
Requests == 1..MaxRequests

CCSearches ==
    {Raised(Exc("VectorStoreError", <<"Similarity search failed: ", "connection refused">>)),
     Returned(<< >>), Returned(<<Doc(100)>>)}
CCPlans ==
    {LLMFailure("Workflow planning failed: "), Returned(NotADict),
     Returned([isdict |-> TRUE, workflow_type |-> "patient_admission",
               steps |-> Some([i \in 1..3 |-> WorkflowStep(i)])])}

NewAgentState_SharedDefault(query, h) ==
    [state |-> [AgentState(query) EXCEPT !.reasoning = 1], heap |-> h]

\* AgentState(query=query, context=context or {}): pydantic gives each instance its
\* own copy of a field's default
NewAgentState(query, h) ==
    [state |-> [AgentState(query) EXCEPT !.reasoning = Len(h) + 1],
     heap |-> Append(h, h[1])]

\* the state with its reasoning list read from the heap
Deref(state, h) == [state EXCEPT !.reasoning = h[state.reasoning]]

\* process from its entry to the first await
WP_until_search(state) ==
    log_reasoning(state, Entry("Starting LLM-powered workflow planning: ", 0, <<state.query>>))

\* process from the return of _get_relevant_policies to the second await, or to its end
\* through the except branch
WP_after_search(state, search) ==
    LET retrieved == WP_get_relevant_policies(search)
    IN IF retrieved.raised THEN Fail(state, Get(retrieved.exc))
       ELSE Done(log_reasoning(state,
                   Entry("Retrieved", Len(Get(retrieved.val)), <<"relevant policies">>)))

\* process from the return of generate_workflow_plan to its end
WP_after_llm(state, policy_docs, llm) ==
    IF llm.raised THEN Fail(state, Get(llm.exc))
    ELSE LET workflow_plan == Get(llm.val) IN
      IF ~workflow_plan.isdict THEN Fail(state, DictSetError)
      ELSE LET enhanced_workflow == WP_enhance_workflow(workflow_plan, policy_docs)
               confidence == WP_calculate_confidence(policy_docs, workflow_plan)
               s3 == set_confidence(state, confidence, <<"LLM workflow">>)
               s4 == [s3 EXCEPT !.result = Some(enhanced_workflow)]
           IN Done(log_reasoning(s4,
                Entry("LLM workflow planning completed successfully", 0, <<>>)))

\* some other request is suspended in an await
OtherInFlight(r) == \E o \in Requests \ {r} : inflight[o].pc \in {"search", "llm"}

\* the coroutine of request r runs to its next await: its locals and the list its state
\* refers to are updated
Resume(r, pc_next, state, search, llm) ==
    /\ inflight' = [inflight EXCEPT ![r] =
                      [pc |-> pc_next,
                       state |-> Some([state EXCEPT !.reasoning =
                                         Get(inflight[r].state).reasoning]),
                       search |-> search, llm |-> llm,
                       overlapped |-> inflight[r].overlapped \/ OtherInFlight(r)]]
    /\ heap' = [heap EXCEPT ![Get(inflight[r].state).reasoning] = state.reasoning]

\* process_workflow_request builds the state and process runs to the vector search
CCStart(r) ==
    /\ inflight[r].pc = "idle"
    /\ \E query \in Queries :
         LET new == NewAgentState(query, heap)
             state == WP_until_search(Deref(new.state, new.heap))
         IN /\ inflight' = [inflight EXCEPT ![r] =
                              [pc |-> "search", state |-> Some(new.state), search |-> None,
                               llm |-> None, overlapped |-> OtherInFlight(r)]]
            /\ heap' = [new.heap EXCEPT ![new.state.reasoning] = state.reasoning]
    /\ UNCHANGED <<varsWS, varsRL, varsAG, varsDS, varsEV>>

\* the vector search of request r answers
CCSearchReturns(r) ==
    /\ inflight[r].pc = "search"
    /\ \E search \in CCSearches :
         LET body == WP_after_search(Deref(Get(inflight[r].state), heap), search)
         IN IF body.raised
              THEN Resume(r, "done", Get(except_Exception(body).val), Some(search), None)
              ELSE Resume(r, "llm", body.state, Some(search), None)
    /\ UNCHANGED <<varsWS, varsRL, varsAG, varsDS, varsEV>>

\* the LLM call of request r answers
CCLlmReturns(r) ==
    /\ inflight[r].pc = "llm"
    /\ \E llm \in CCPlans :
         LET policy_docs == Get(WP_get_relevant_policies(Get(inflight[r].search)).val)
             body == WP_after_llm(Deref(Get(inflight[r].state), heap), policy_docs, llm)
         IN Resume(r, "done", Get(except_Exception(body).val), inflight[r].search,
                   Some(llm))
    /\ UNCHANGED <<varsWS, varsRL, varsAG, varsDS, varsEV>>

NextCC ==
    \E r \in Requests : CCStart(r) \/ CCSearchReturns(r) \/ CCLlmReturns(r)

InitDS ==
    /\ upload_dir = << >>
    /\ processed_dir = {}
    /\ collection = {}
    /\ ndocs = 0

InitEV == metrics_history = << >>

InitCC ==
    /\ inflight = [r \in Requests |-> [pc |-> "idle", state |-> None, search |-> None,
                                       llm |-> None, overlapped |-> FALSE]]
    /\ heap = << << >> >>

Init == InitWS /\ InitRL /\ InitAG /\ InitDS /\ InitEV /\ InitCC

SpecWS == Init /\ [][NextWS]_vars
SpecAG == Init /\ [][NextAG]_vars
SpecRL == Init /\ [][NextRL]_vars
SpecAPI == Init /\ [][NextAPI]_vars
SpecAU == Init /\ [][NextAU]_vars
SpecEV == Init /\ [][NextEV]_vars
SpecCC == Init /\ [][NextCC]_vars

-----------------------------------------------------------------------------
(* Claims about the real-time gateway, checked under SpecWS                *)

\* C1: every connection gets exactly one connection_established frame, carrying its
\* session id, before any other frame; and the session exists and is bound to the
\* connection before that frame is sent.
C1_EstablishedOnceAndFirst ==
    \A c \in Conns :
      /\ pc[c] \in {"none", "accept", "welcome"} => out[c] = <<>>
      /\ pc[c] \in {"recv", "dispatch", "agent", "closed"} => out[c] # <<>>
      /\ out[c] # <<>> =>
           /\ out[c][1].type = "connection_established"
           /\ out[c][1].session_id = session_id[c]
           /\ session_id[c] # None
           /\ Get(session_id[c]).user_id = connUser[c]
           /\ \A i \in 2..Len(out[c]) : out[c][i].type # "connection_established"
      /\ pc[c] = "welcome" =>
           /\ c \in DOMAIN user_sessions
           /\ c \in active_connections
           /\ Some(user_sessions[c]) = session_id[c]
           /\ user_sessions[c] \in DOMAIN sessions
           /\ sessions[user_sessions[c]].user_id = connUser[c]

\* a connection that got its welcome and then further frames
C1_Witness ==
    \E c \in Conns :
      /\ Len(out[c]) >= 3
      /\ out[c][1].type = "connection_established"
      /\ out[c][3].type = "error"

\* C2: a frame of a type other than query, workflow_request, exception_request and
\* complex_query is answered by exactly one error frame, 'Unknown message type: {type}',
\* and the connection stays open and registered, back in its receive loop.
C2_UnknownTypeHandled ==
    \A c \in Conns :
      (/\ pc[c] = "dispatch"
       /\ pc'[c] # "dispatch"
       /\ \A t \in {"query", "workflow_request", "exception_request", "complex_query"} :
             Get(cur[c]).message.type # Some(t))
      => LET n == Get(cur[c]).seq
             type == Get(cur[c]).message.type
             errors == {i \in DOMAIN out'[c] : out'[c][i].cause = n /\ out'[c][i].type = "error"}
         IN /\ Len(out'[c]) = Len(out[c]) + 1
            /\ SubSeq(out'[c], 1, Len(out[c])) = out[c]
            /\ errors = {Len(out'[c])}
            /\ out'[c][Len(out'[c])].message =
                 <<"Unknown message type: ", IF type = None THEN "None" ELSE type[1]>>
            /\ pc'[c] = "recv"
            /\ c \in active_connections'
            /\ c \in DOMAIN user_sessions'

C2_UnknownTypeOneError == [][C2_UnknownTypeHandled]_vars

\* an unknown type was answered and the same connection then handled its next frame
C2_Witness ==
    \E c \in Conns : \E i, j \in DOMAIN out[c] :
      /\ i < j
      /\ out[c][i].type = "error"
      /\ out[c][i].message = <<"Unknown message type: ", "ping">>
      /\ out[c][j].cause = out[c][i].cause + 1
      /\ c \in active_connections

\* C3: once a connection's receive loop has ended, however it ended, its id is in
\* neither the connection map nor the session map.
C3_ClosedConnectionsRemoved ==
    \A c \in Conns :
      pc[c] = "closed" => (c \notin active_connections /\ c \notin DOMAIN user_sessions)

\* C4: no two active connections are bound to the same session id.
C4_OneConnectionPerSession ==
    \A c, d \in active_connections \cap DOMAIN user_sessions :
      (c # d /\ pc[c] \in Live /\ pc[d] \in Live) => user_sessions[c] # user_sessions[d]

\* C5: on one connection frames are taken in arrival order, one handler at a time, and
\* every frame a handler sends leaves before the next inbound frame is taken, so replies
\* leave in arrival order.
C5_Serialized ==
    \A c \in Conns :
      /\ \A i \in DOMAIN taken[c] : taken[c][i] = i
      /\ \A i, j \in DOMAIN out[c] : i < j => out[c][i].cause <= out[c][j].cause
      /\ \A i \in DOMAIN out[c] : out[c][i].cause <= Len(taken[c])
      /\ pc[c] \in {"dispatch", "agent"} => (cur[c] # None /\ Get(cur[c]).seq = Len(taken[c]))
      /\ pc[c] \in {"recv", "closed"} =>
           /\ cur[c] = None
           /\ \A n \in DOMAIN taken[c] : \E i \in DOMAIN out[c] : out[c][i].cause = n

C5_TakesOnlyWhenIdle ==
    \A c \in Conns :
      taken'[c] # taken[c] =>
        /\ pc[c] = "recv"
        /\ cur[c] = None
        /\ inbox[c] # <<>>
        /\ taken'[c] = Append(taken[c], Head(inbox[c]).seq)
        /\ inbox'[c] = Tail(inbox[c])

C5_PerConnectionFIFO == []C5_Serialized /\ [][C5_TakesOnlyWhenIdle]_vars

\* one connection is suspended in its agent call and, meanwhile, a handler of another
\* connection has run and replied
C5_Witness ==
    \E c, d \in Conns :
      /\ c # d
      /\ pc[c] = "agent"
      /\ overlap
      /\ \E i \in DOMAIN out[d] : out[d][i].cause = 1

-----------------------------------------------------------------------------
(* The claim about the rate limiter, checked under SpecRL                  *)

\* C6: is_allowed answers true while fewer than `limit` recorded calls of the key are
\* younger than the window, false once `limit` of them are, and true again when every
\* recorded call is at least `window` seconds older than the call, also when it is more
\* than a day older.
C6_RateLimitWindow ==
    rlLast # None =>
      LET r == Get(rlLast)
          recent == {i \in DOMAIN r.before : r.at - r.before[i] < RlWindow}
      IN /\ Cardinality(recent) < RlLimit => r.allowed
         /\ Cardinality(recent) >= RlLimit => ~r.allowed
         /\ (r.before # <<>> /\ \A i \in DOMAIN r.before : r.at - r.before[i] >= RlWindow)
               => r.allowed

-----------------------------------------------------------------------------
(* Claims about the agent layer, checked under SpecAG                      *)

\* C7: process of each agent never raises; when retrieval, the LLM call or enrichment
\* raises, it returns the state with error the exception's message, confidence 0.0 and
\* an 'Error occurred: ...' entry appended after the entries already in reasoning.
C7_ProcessNeverRaises ==
    (call # None /\ Get(call).op = "process") =>
      LET k == Get(call)
          prior == k.state.reasoning
          \* the LLM is called: always, but by the Policy Interpreter only when some
          \* retrieved document scores above 0.3
          llmCalled == /\ ~k.search.raised
                       /\ k.agent = "PolicyInterpreter" =>
                            \E i \in DOMAIN Get(k.search.val) :
                               Get(k.search.val)[i].score > 30
          \* the exception retrieval or the LLM call raises, if one does
          failure == IF k.search.raised THEN k.search.exc
                     ELSE IF llmCalled /\ k.llm.raised THEN k.llm.exc
                     ELSE None
          \* the reply came back but is no JSON object, so enriching it raises
          enrichmentFails == llmCalled /\ ~k.llm.raised /\ ~Get(k.llm.val).isdict
      IN /\ ~k.outcome.raised
         /\ k.outcome.val # None
         /\ (failure # None \/ enrichmentFails) =>
              LET st == Get(k.outcome.val)
                  n == Len(st.reasoning)
              IN /\ st.error # None
                 /\ failure # None => Get(st.error) = Get(failure).msg
                 /\ st.confidence = 0
                 /\ n > Len(prior)
                 /\ SubSeq(st.reasoning, 1, Len(prior)) = prior
                 /\ st.reasoning[n] = [text |-> "Error occurred: ", n |-> 0,
                                       arg |-> Get(st.error)]

\* the LLM call failed in an agent whose state already held reasoning
C7_Witness ==
    /\ call # None
    /\ Get(call).op = "process"
    /\ Get(call).agent = "ExceptionHandler"
    /\ Get(call).state.reasoning # <<>>
    /\ ~Get(call).search.raised
    /\ Get(call).llm.raised
    /\ ~Get(call).outcome.raised
    /\ Get(Get(call).outcome.val).error = Some(<<"Exception handling failed: ", "timeout">>)

\* C8: process_complex_query returns a payload with llm_routing true, agent_used the
\* routed agent name, and confidence, reasoning, result and error of the final state.
C8_ComplexQueryPayload ==
    (call # None /\ Get(call).op = "orchestrator.process_complex_query") =>
      LET k == Get(call)
          final == process(k.agent, k.state, k.search, k.llm)
      IN /\ ~k.outcome.raised
         /\ ~final.raised
         /\ LET p == Get(k.outcome.val)
                st == Get(final.val)
            IN /\ "llm_routing" \in DOMAIN p
               /\ p.llm_routing = TRUE
               /\ p.agent_used = k.agent
               /\ p.confidence = st.confidence
               /\ p.reasoning = st.reasoning
               /\ p.result = st.result
               /\ p.error = st.error

C10_ServiceReturnsOnCompletion ==
    (call # None /\ Get(call).op = "agent_service.process") =>
      LET k == Get(call)
          final == process(k.agent, k.state, k.search, k.llm)
      IN /\ k.outcome.raised => Get(k.outcome.exc).cls = "QueryProcessingError"
         /\ ~final.raised =>
              /\ ~k.outcome.raised
              /\ Get(k.outcome.val) =
                   [agent_used |-> k.agent, result |-> Get(final.val).result,
                    confidence |-> Get(final.val).confidence,
                    reasoning |-> Get(final.val).reasoning]

-----------------------------------------------------------------------------
(* Claims about the HTTP routers, checked under SpecAPI                    *)

\* C11: POST /api/v1/query answers a succeeding policy interpretation with a QueryResponse
\* (the query, the direct answer or 'No answer available', the confidence,
\* processing_time_ms = 100), a QueryProcessingError with 400, and only other exceptions
\* with 500.
C11_QueryEndpoint ==
    (call # None /\ Get(call).op = "POST /api/v1/query") =>
      LET k == Get(call)
      IN IF k.interp.raised
           THEN /\ k.outcome.raised
                /\ Get(k.outcome.exc).status_code =
                     IF Get(k.interp.exc).cls = "QueryProcessingError" THEN 400 ELSE 500
           ELSE /\ ~k.outcome.raised
                /\ Get(k.outcome.val) =
                     [query |-> k.query,
                      answer |-> IF Get(k.interp.val).result.direct_answer = None
                                   THEN "No answer available"
                                   ELSE Get(k.interp.val).result.direct_answer[1],
                      confidence |-> Get(k.interp.val).confidence,
                      processing_time_ms |-> 100]

-----------------------------------------------------------------------------
(* The claim about handle_exceptions, checked under SpecAG                 *)

\* C12: whatever escapes an operation wrapped by handle_exceptions is a domain error: a
\* HealthcareCopilotException raised inside passes unchanged, any other exception is
\* replaced by a SERVICE_ERROR carrying the operation's name and the exception's type.
C12_WrappedRaiseDomainErrors ==
    (call # None /\ Get(call).op \in {"process", "orchestrator.direct",
                                      "query_service._generate_template_answer"}) =>
      LET k == Get(call)
          name == IF k.op = "process" THEN "process"
                  ELSE IF k.op = "orchestrator.direct"
                         THEN (IF k.agent = "WorkflowPlanner" THEN "process_workflow_request"
                               ELSE "process_exception_request")
                  ELSE "_generate_template_answer"
          inner == IF k.op = "process" THEN k.outcome
                   ELSE IF k.op = "orchestrator.direct"
                          THEN Orch_direct_body(k.agent, k.state.query, k.search, k.llm)
                   ELSE k.inner
      IN /\ k.outcome.raised = inner.raised
         /\ k.outcome.raised =>
              LET e == Get(k.outcome.exc)
                  cause == Get(inner.exc)
              IN /\ e.cls \in {"HealthcareCopilotException", "DocumentProcessingError",
                               "VectorStoreError", "QueryProcessingError", "ValidationError"}
                 /\ IF cause.cls \in {"HealthcareCopilotException", "DocumentProcessingError",
                                      "VectorStoreError", "QueryProcessingError",
                                      "ValidationError"}
                      THEN e = cause
                      ELSE /\ e.error_code = "SERVICE_ERROR"
                           /\ e.details = [function |-> name, exception_type |-> cause.cls]

\* C13: every router answers a domain error of the delegated service (any
\* HealthcareCopilotException subclass) with 400 and the error's message as detail, and
\* any other exception with 500 and a generic message.
C13_DomainErrorsGive400 ==
    (call # None /\ Get(call).op \in {"POST /api/v1/query", "POST /api/v1/workflow|exception",
                                      "POST /api/v1/complex", "POST /api/v1/ingest"}) =>
      LET k == Get(call)
      IN /\ k.outcome.raised = k.service.raised
         /\ k.service.raised =>
              LET e == Get(k.service.exc)
                  http == Get(k.outcome.exc)
              IN IF e.cls \in {"HealthcareCopilotException", "DocumentProcessingError",
                               "VectorStoreError", "QueryProcessingError", "ValidationError"}
                   THEN http.status_code = 400 /\ http.detail = e.msg
                   ELSE /\ http.status_code = 500
                        /\ http.detail[1] = "Internal server error during "

-----------------------------------------------------------------------------
(* Claims about authentication and authorization, checked under SpecAU     *)

\* C14: verify_token returns the claims only for a token with a valid signature and an
\* expiry in the future; a bad signature, a passed expiry or a missing expiry give 401.
\* A token create_access_token(claims, ttl) issued verifies at every time before issue
\* time + ttl and at no time after it.
C14_VerifyToken ==
    (call # None /\ Get(call).op = "verify_token") =>
      LET k == Get(call)
          t == k.token
          signed == t.form = "jwt" /\ t.key = "your-secret-key-change-in-production"
      IN /\ ~k.outcome.raised =>
              /\ signed
              /\ t.payload.exp # None
              /\ Get(t.payload.exp) * 1000 >= k.now
              /\ Get(k.outcome.val) = t.payload
         /\ (~signed \/ t.payload.exp = None \/ Get(t.payload.exp) * 1000 < k.now) =>
              /\ k.outcome.raised
              /\ Get(k.outcome.exc).status_code = 401
         /\ k.issued # None =>
              LET ttl == IF Get(k.issued).ttl = None THEN 24 * 3600 * 1000
                         ELSE Get(Get(k.issued).ttl)
                  deadline == Get(k.issued).at + ttl
              IN /\ k.now < deadline => ~k.outcome.raised
                 /\ k.now > deadline => k.outcome.raised

\* C15: the admin endpoints answer only a valid, unexpired token with a sub claim and role
\* exactly 'admin'; a missing, invalid or expired token is rejected as Unauthorized (401)
\* and every other role as Forbidden (403).
C15_AdminOnly ==
    (call # None /\ Get(call).op = "GET admin") =>
      LET k == Get(call)
          genuine == /\ k.header # None
                     /\ Get(k.header).form = "jwt"
                     /\ Get(k.header).key = "your-secret-key-change-in-production"
                     /\ Get(k.header).payload.exp # None
                     /\ Get(Get(k.header).payload.exp) * 1000 > k.now
          named == genuine /\ Get(k.header).payload.sub \notin {None, Some("")}
          admin == named /\ Get(k.header).payload.role = Some("admin")
      IN /\ ~k.outcome.raised <=> admin
         /\ ~genuine => (k.outcome.raised /\ Get(k.outcome.exc).status_code = 401)
         /\ (named /\ ~admin) => (k.outcome.raised /\ Get(k.outcome.exc).status_code = 403)

\* C16: check_permission(user, p) is true exactly when the user's permissions contain
\* 'write:all' or p; so admin and supervisor pass every check, healthcare_staff and viewer
\* only the permissions of their role, and a role outside the table none.
C16_CheckPermission ==
    (call # None /\ Get(call).op = "check_permission") =>
      LET k == Get(call)
          role == k.user.role
      IN /\ k.outcome = ("write:all" \in k.user.permissions
                           \/ k.permission \in k.user.permissions)
         /\ role \in {Some("admin"), Some("supervisor")} => k.outcome
         /\ role = Some("healthcare_staff") =>
              (k.outcome <=> k.permission \in
                 {"read:policies", "read:workflows", "read:exceptions",
                  "write:queries", "write:workflows", "write:exceptions"})
         /\ role = Some("viewer") =>
              (k.outcome <=> k.permission \in {"read:policies", "read:workflows"})
         /\ role \notin {Some("admin"), Some("supervisor"), Some("healthcare_staff"),
                         Some("viewer")} => ~k.outcome

\* a supervisor passes the check of a permission its role does not list
C16_Witness ==
    /\ call # None
    /\ Get(call).op = "check_permission"
    /\ Get(call).user.role = Some("supervisor")
    /\ Get(call).permission = "write:queries"
    /\ Get(call).outcome = TRUE

-----------------------------------------------------------------------------
(* More claims about the agents, checked under SpecAG                      *)

C18_NoPolicyFallback ==
    (/\ call # None
     /\ Get(call).op = "process"
     /\ Get(call).agent = "PolicyInterpreter"
     /\ ~Get(call).search.raised
     /\ \A i \in DOMAIN Get(Get(call).search.val) : Get(Get(call).search.val)[i].score <= 30)
    => LET k == Get(call)
           st == Get(k.outcome.val)
       IN /\ ~k.outcome.raised
          /\ st.error = None
          /\ st.confidence * 10 = 6000
          /\ st.result # None
          /\ Get(st.result).recommendations =
               <<"Consult with supervisor for guidance",
                 "Review complete policy documentation",
                 "Document query for policy development review">>
          /\ Get(st.result).next_steps =
               <<"Escalate to supervisor", "Document the query", "Seek department guidance">>
          /\ Get(st.result).requirements = <<>>
          /\ Get(st.result).procedures = <<>>
          /\ Get(st.result).exceptions = <<>>
          /\ Get(st.result).compliance_notes = <<>>
          /\ Get(st.result).sources = <<>>

\* a chunk scoring exactly 0.3 was retrieved and the LLM, had it been called, would have
\* failed
C18_Witness ==
    /\ call # None
    /\ Get(call).op = "process"
    /\ Get(call).agent = "PolicyInterpreter"
    /\ ~Get(call).search.raised
    /\ Get(Get(call).search.val) # <<>>
    /\ \A i \in DOMAIN Get(Get(call).search.val) : Get(Get(call).search.val)[i].score = 30
    /\ Get(call).llm.raised
    /\ Get(Get(call).outcome.val).error = None

\* C20: in the Exception Handler's timeline_summary every resolution step's action appears
\* in exactly one of the buckets immediate, short_term, long_term, in step order: a step
\* whose timeline is one of the three names goes to that bucket, and a step whose timeline
\* is missing or any other value (such as '1 hour') goes to short_term.
C20_TimelineSummary ==
    (/\ call # None
     /\ Get(call).op = "process"
     /\ Get(call).agent = "ExceptionHandler"
     /\ ~Get(call).outcome.raised
     /\ Get(Get(call).outcome.val).result # None)
    => LET plan == Get(Get(call).llm.val)
           steps == IF IsNone(plan.resolution_steps) THEN <<>> ELSE Get(plan.resolution_steps)
           summary == Get(Get(Get(call).outcome.val).result).timeline_summary
           Immediate(step) == step.timeline = Some("immediate")
           LongTerm(step) == step.timeline = Some("long_term")
           ShortTerm(step) == ~Immediate(step) /\ ~LongTerm(step)
           Actions(sel) == [i \in DOMAIN sel |-> sel[i].action]
       IN /\ summary.immediate = Actions(SelectSeq(steps, Immediate))
          /\ summary.short_term = Actions(SelectSeq(steps, ShortTerm))
          /\ summary.long_term = Actions(SelectSeq(steps, LongTerm))
          /\ Len(summary.immediate) + Len(summary.short_term) + Len(summary.long_term)
               = Len(steps)

\* C19: route_query never raises and always returns exactly one of PolicyInterpreter,
\* WorkflowPlanner, ExceptionHandler: the model's trimmed reply when it is one of these
\* names, and otherwise (invalid reply or failed model call) the keyword routing of the
\* query, with policy keywords tested first, then workflow keywords, then exception
\* keywords, and PolicyInterpreter as the default.
C19_RouteQuery ==
    (call # None /\ Get(call).op = "route_query") =>
      LET k == Get(call)
          names == {"PolicyInterpreter", "WorkflowPlanner", "ExceptionHandler"}
          trimmed == IF k.reply.raised THEN <<>> ELSE Strip(Get(k.reply.val))
          valid == ~k.reply.raised /\ Len(trimmed) = 1 /\ trimmed[1] \in names
          found == KeywordsIn(k.query)
          keyword ==
              IF found \cap {"policy", "regulation", "compliance", "rule"} # {}
                THEN "PolicyInterpreter"
              ELSE IF found \cap {"workflow", "procedure", "steps", "process"} # {}
                THEN "WorkflowPlanner"
              ELSE IF found \cap {"problem", "error", "exception", "emergency", "issue"} # {}
                THEN "ExceptionHandler"
              ELSE "PolicyInterpreter"
      IN /\ ~k.outcome.raised
         /\ Get(k.outcome.val) \in names
         /\ Get(k.outcome.val) = IF valid THEN trimmed[1] ELSE keyword

\* C21: for a workflow of n steps the Workflow Planner's checkpoints have after_step
\* exactly the multiples of 3 in 1..n in increasing order, each a Quality Review with
\* reviewer role Supervisor, and the dependencies are exactly the n-1 statements
\* 'Step k depends on completion of Step k-1' for k = 2..n.
C21_CheckpointsAndDependencies ==
    (/\ call # None
     /\ Get(call).op = "process"
     /\ Get(call).agent = "WorkflowPlanner"
     /\ ~Get(call).outcome.raised
     /\ Get(Get(call).outcome.val).result # None
     /\ Get(Get(call).llm.val).steps # None)
    => LET n == Len(Get(Get(Get(call).llm.val).steps))
           plan == Get(Get(Get(call).outcome.val).result)
           checkpoints == plan.checkpoints
           dependencies == Get(plan.dependencies)
       IN /\ {checkpoints[k].after_step : k \in DOMAIN checkpoints}
               = {m \in 1..n : m % 3 = 0}
          /\ \A j, k \in DOMAIN checkpoints :
               j < k => checkpoints[j].after_step < checkpoints[k].after_step
          /\ \A k \in DOMAIN checkpoints :
               /\ checkpoints[k].checkpoint_type = "Quality Review"
               /\ checkpoints[k].reviewer_role = "Supervisor"
          /\ plan.dependencies # None
          /\ Len(dependencies) = IF n = 0 THEN 0 ELSE n - 1
          /\ \A i \in DOMAIN dependencies :
               dependencies[i] = [step |-> i + 1, depends_on |-> i]

\* a plan of seven steps came back with checkpoints after steps 3 and 6
C21_Witness ==
    /\ call # None
    /\ Get(call).op = "process"
    /\ Get(call).agent = "WorkflowPlanner"
    /\ ~Get(call).llm.raised
    /\ Get(Get(call).llm.val).isdict
    /\ Get(Get(call).llm.val).steps # None
    /\ Len(Get(Get(Get(call).llm.val).steps)) = 7
    /\ Get(Get(call).outcome.val).result # None
    /\ Len(Get(Get(Get(call).outcome.val).result).checkpoints) = 2
    /\ Len(Get(Get(Get(Get(call).outcome.val).result).dependencies)) = 6

-----------------------------------------------------------------------------
(* The document store, checked under SpecAPI                               *)

\* C22: ingesting a .docx file within the size limit passes validate_file and save_file
\* and fails in extract_text with a DocumentProcessingError ('not implemented'); after
\* the failed ingest the raw upload is on disk, no extracted text exists for its document
\* id (get_document_info returns absent), none of its chunks is in the vector store, and
\* the endpoint answers 400.
C22_DocxTwoStage ==
    /\ (/\ call # None
        /\ Get(call).op = "POST /api/v1/ingest"
        /\ Get(call).file.ext = "docx"
        /\ Get(call).file.size <= MaxSizeBytes
        /\ ~Get(call).written.raised)
       => LET k == Get(call)
          IN /\ k.doc_id # None
             /\ Get(k.doc_id) \in DOMAIN upload_dir
             /\ k.service.raised
             /\ Get(k.service.exc).cls = "DocumentProcessingError"
             /\ Get(k.service.exc).msg =
                  <<"Text extraction not implemented for file type: ", ".", "docx">>
             /\ k.outcome.raised
             /\ Get(k.outcome.exc).cls = "HTTPException"
             /\ Get(k.outcome.exc).status_code = 400
    /\ \A d \in DOMAIN upload_dir :
         upload_dir[d] = "docx" => d \notin processed_dir /\ d \notin collection
    /\ (/\ call # None
        /\ Get(call).op = "get_document_info"
        /\ Get(call).doc_id \in DOMAIN upload_dir
        /\ upload_dir[Get(call).doc_id] = "docx")
       => Get(call).outcome = Returned(None)

\* after a .docx ingest and a pdf ingest that succeeded, get_document_info was asked
\* about the .docx document
C22_Witness ==
    /\ call # None
    /\ Get(call).op = "get_document_info"
    /\ Get(call).doc_id \in DOMAIN upload_dir
    /\ upload_dir[Get(call).doc_id] = "docx"
    /\ \E d \in DOMAIN upload_dir : upload_dir[d] = "pdf" /\ d \in collection

-----------------------------------------------------------------------------
(* The evaluation history, checked under SpecEV                            *)

\* C23: every call of evaluate_rag_response, for any query, answer and retrieved-doc
\* list (an empty answer with a non-empty doc list included), returns a metrics record and
\* appends exactly that record to the history; so after n such calls
\* get_aggregate_metrics(window) reports total_evaluations = n and
\* window_size = min(n, window), and no other operation changes the history.
C23_OneRecordPerEvaluation ==
    /\ [][/\ (call = None /\ call' # None /\ Get(call').op = "evaluate_rag_response")
             => /\ ~Get(call').outcome.raised
                /\ metrics_history' = Append(metrics_history, Get(Get(call').outcome.val))
          /\ ~(call = None /\ call' # None /\ Get(call').op = "evaluate_rag_response")
             => metrics_history' = metrics_history]_vars
    /\ [](call # None /\ Get(call).op = "get_aggregate_metrics" /\ metrics_history # << >>
          => LET result == Get(Get(call).outcome.val)
             IN /\ result.total_evaluations = Len(metrics_history)
                /\ result.window_size = Min(Len(metrics_history), Get(call).window_size))

-----------------------------------------------------------------------------
(* Concurrent requests, checked under SpecCC                               *)

\* C24: when two requests are processed concurrently by the same agent instance and
\* interleave at the vector-search and LLM suspension points, each request's final
\* AgentState (reasoning entries, confidence, result, error) equals the one it would have
\* if it were processed alone.
C24_NoInterference ==
    \A r \in Requests :
      inflight[r].pc = "done" =>
        LET final == Deref(Get(inflight[r].state), heap)
            llm == IF inflight[r].llm = None THEN LLMFailure("Workflow planning failed: ")
                   ELSE Get(inflight[r].llm)
            alone == Get(process("WorkflowPlanner", AgentState(final.query),
                                 Get(inflight[r].search), llm).val)
        IN /\ final.reasoning = alone.reasoning
           /\ final.confidence = alone.confidence
           /\ final.result = alone.result
           /\ final.error = alone.error

\* two requests with different queries both finished with a plan, each having run
\* while the other was suspended
C24_Witness ==
    /\ \A r \in {1, 2} :
         /\ inflight[r].pc = "done"
         /\ inflight[r].overlapped
         /\ Get(inflight[r].state).result # None
    /\ Get(inflight[1].state).query # Get(inflight[2].state).query

-----------------------------------------------------------------------------
(* More claims about the real-time gateway, checked under SpecWS           *)

\* C25: for each inbound frame of a recognized type on a bound session the events occur in
\* the order agent_typing frame, merge of the session's prior context, agent call, append of
\* exactly one ConversationTurn, exactly one typed response frame; if the agent call fails
\* no turn is appended and no typed response is sent; so the number of turns stored for
\* a session always equals the number of typed responses sent on it.
C25_HandlerStep ==
    \A c \in Conns :
      LET typed == {"query_response", "workflow_response", "exception_response",
                    "complex_response"}
          sent == SubSeq(out'[c], Len(out[c]) + 1, Len(out'[c]))
          responds == \E i \in DOMAIN sent : sent[i].type \in typed
          sid == Get(cur[c]).session_id
      IN /\ (out'[c] # out[c] /\ responds) =>
              /\ pc[c] = "agent"
              /\ Len(sent) = 1
              /\ out[c] # <<>>
              /\ out[c][Len(out[c])].type = "agent_typing"
              /\ out[c][Len(out[c])].cause = Get(cur[c]).seq
              /\ sent[1].cause = Get(cur[c]).seq
              /\ Get(cur[c]).conv_context # None
              /\ sent[1].session_context = Get(cur[c]).conv_context
              /\ Len(sessions'[sid].turns) = Len(sessions[sid].turns) + 1
              /\ SubSeq(sessions'[sid].turns, 1, Len(sessions[sid].turns)) = sessions[sid].turns
         /\ (pc[c] = "agent" /\ pc'[c] # "agent" /\ ~responds) =>
              /\ sessions' = sessions
              /\ Len(sent) = 1
              /\ sent[1].type = "error"

C25_TurnsMatchResponses ==
    \A sid \in DOMAIN sessions :
      Len(sessions[sid].turns) =
        Cardinality({<<c, i>> \in Conns \X (1..(MaxFrames * 3 + 1)) :
                       /\ session_id[c] = Some(sid)
                       /\ i \in DOMAIN out[c]
                       /\ out[c][i].type \in {"query_response", "workflow_response",
                                              "exception_response", "complex_response"}})

C25_TurnPerResponse == []C25_TurnsMatchResponses /\ [][C25_HandlerStep]_vars

\* C26: an exception raised while decoding or dispatching one inbound frame (an agent
\* failure, or a frame that is not valid JSON) results in exactly one error frame
\* embedding the exception text, and the connection stays usable: the receive loop
\* continues and later frames on that connection are still handled.
C26_FrameFailure ==
    \A c \in Conns :
      LET sent == SubSeq(out'[c], Len(out[c]) + 1, Len(out'[c]))
          undecodable == /\ pc[c] = "recv"
                         /\ taken'[c] # taken[c]
                         /\ Head(inbox[c]).data.json = "invalid"
          agent_failed == /\ pc[c] = "agent"
                          /\ pc'[c] # "agent"
                          /\ sessions' = sessions
      IN /\ undecodable =>
              /\ Len(sent) = 1
              /\ sent[1].type = "error"
              /\ sent[1].cause = Head(inbox[c]).seq
              /\ \E i \in DOMAIN sent[1].message :
                   sent[1].message[i] = "Expecting value: line 1 column 1 (char 0)"
              /\ pc'[c] = "recv"
         /\ agent_failed =>
              /\ Len(sent) = 1
              /\ sent[1].type = "error"
              /\ sent[1].cause = Get(cur[c]).seq
              /\ Len(sent[1].message) > 1
              /\ pc'[c] = "recv"

C26_ErrorKeepsConnection == [][C26_FrameFailure]_vars

\* C27: in every reachable state of the gateway each connection id in the
\* connection-id -> session-id map is also in the connection manager's socket map, so
\* /ws/stats never reports more active sessions than active connections.
C27_SessionsWithinConnections ==
    /\ DOMAIN user_sessions \subseteq active_connections
    /\ Cardinality(DOMAIN user_sessions) <= Cardinality(active_connections)

\* one connection has disconnected and been removed while another is still bound
C27_Witness ==
    \E c, d \in Conns :
      /\ pc[c] = "closed"
      /\ c \notin active_connections
      /\ c \notin DOMAIN user_sessions
      /\ d \in DOMAIN user_sessions
      /\ d \in active_connections

-----------------------------------------------------------------------------
(* The returned state's result and error, checked under SpecAG             *)

\* state.confidence was assigned by set_confidence after the reasoning the caller passed in
ConfidenceSetInRun(k, st) ==
    \E i \in (Len(k.state.reasoning) + 1)..Len(st.reasoning) :
      /\ st.reasoning[i].text = "Confidence set to"
      /\ st.reasoning[i].n = st.confidence

\* C28: the state an agent's process returns has exactly one of result and error
\* populated: with an error the result is absent and the confidence is 0.0, without
\* an error the result is present and the confidence was set by that run; it never
\* carries both.
C28_ResultXorError ==
    (call # None /\ Get(call).op = "process") =>
      LET k == Get(call)
          st == Get(k.outcome.val)
      IN /\ ~k.outcome.raised
         /\ (st.error # None) # (st.result # None)
         /\ st.error # None => (st.result = None /\ st.confidence = 0)
         /\ st.error = None => (st.result # None /\ ConfidenceSetInRun(k, st))

\* the Policy Interpreter finds no relevant policy and returns its fixed result
C28_Witness ==
    /\ call # None
    /\ Get(call).op = "process"
    /\ Get(call).agent = "PolicyInterpreter"
    /\ ~Get(call).search.raised
    /\ \A i \in DOMAIN Get(Get(call).search.val) : Get(Get(call).search.val)[i].score <= 30
    /\ Get(Get(call).outcome.val).error = None
    /\ Get(Get(call).outcome.val).result # None
    /\ Get(Get(call).outcome.val).confidence = U(10)

-----------------------------------------------------------------------------
(* The rate limiter's frame, checked under SpecRL                          *)

\* one is_allowed call: the other keys' lists are untouched, and a denied call leaves
\* the called key's list as it was
C29_CallFrame ==
    rlCalls' = rlCalls + 1 =>
      LET last == Get(rlLast')
      IN /\ \A k \in Keys \ {last.key} : requests'[k] = requests[k]
         /\ ~last.allowed => requests'[last.key] = requests[last.key]
         /\ last.allowed => requests'[last.key][Len(requests'[last.key])] = last.at

\* C29: a denied is_allowed call records no timestamp and a call for key k never
\* changes the timestamps of another key; so no key ever holds more than limit
\* timestamps, and a denied call, leaving the stored list as it was, cannot postpone the
\* moment the key is allowed again.
C29_DeniedLeavesNoTrace ==
    /\ [](\A k \in Keys : Len(requests[k]) <= RlLimit)
    /\ [][C29_CallFrame]_vars

\* a key at its limit has just been denied while another key holds a timestamp
C29_Witness ==
    /\ rlLast # None
    /\ ~Get(rlLast).allowed
    /\ Len(requests[Get(rlLast).key]) = RlLimit
    /\ requests[Get(rlLast).key] = Get(rlLast).before
    /\ \E k \in Keys \ {Get(rlLast).key} : requests[k] # <<>>

-----------------------------------------------------------------------------
(* Token kinds, checked under SpecAU                                       *)

\* C30: get_current_user does not tell token kinds apart: a token create_refresh_token
\* issued (type 'refresh', expiring after 7 days) with a sub claim, presented before
\* its expiry, authenticates the caller and yields the role's permissions, exactly as
\* an access token of the same claims and lifetime does.
C30_RefreshTokenAccepted ==
    (/\ call # None
     /\ Get(call).op = "get_current_user"
     /\ Get(call).kind = "refresh"
     /\ Get(call).data.sub \notin {None, Some("")}
     /\ Get(call).now < Get(Get(call).token.payload.exp) * MsPerSecond) =>
      LET k == Get(call)
          role == k.data.role
          lifetime == JwtRefreshDays * SecondsPerDay * MsPerSecond
          access == create_access_token(k.data, Some(lifetime), k.at)
      IN /\ k.token.payload.type = "refresh"
         /\ Get(k.token.payload.exp) = (k.at + lifetime) \div MsPerSecond
         /\ ~k.outcome.raised
         /\ Get(k.outcome.val).user_id = Get(k.data.sub)
         /\ Get(k.outcome.val).role = role
         /\ Get(k.outcome.val).permissions =
              (IF role # None /\ Get(role) \in DOMAIN RolePermissions
                 THEN RolePermissions[Get(role)] ELSE {})
         /\ \A decoded \in jwt_decode(access, SecretKey, k.now) :
              get_current_user(decoded, k.now) = k.outcome

\* an admin's refresh token, presented after an access token's default lifetime, is
\* accepted with the admin permissions
C30_Witness ==
    /\ call # None
    /\ Get(call).op = "get_current_user"
    /\ Get(call).kind = "refresh"
    /\ Get(call).data.role = Some("admin")
    /\ Get(call).now > Get(call).at + JwtExpiryHours * 3600 * MsPerSecond
    /\ ~Get(call).outcome.raised
    /\ "write:all" \in Get(Get(call).outcome.val).permissions

====
